---- MODULE Spec2Model ----
(***************************************************************************)
(* Umzugshilfe job auto-applier: the orchestrating service (handleNewJob,  *)
(* its single-flight flag, its queue and its processed-job set), the       *)
(* mailbox watcher (checkForNewEmails and its dedup tracker) and the       *)
(* listing submitter (applyToJobByDetails).  Strings are sequences of      *)
(* one-character strings, so that normalisation and key building are       *)
(* computed as the JavaScript computes them.                               *)
(***************************************************************************)
EXTENDS Integers, Sequences, FiniteSets, TLC

(***************************************************************************)
(* Strings                                                                 *)
(***************************************************************************)
Digits == {"0", "1", "2", "3", "4", "5", "6", "7", "8", "9"}

\* \s of the regular expressions: blank and tab are the ones the inputs use
WS == {" ", "\t"}

IsDigit(c) == c \in Digits

AllDigits(s) == \A i \in 1..Len(s) : IsDigit(s[i])

RECURSIVE DropWs(_)
DropWs(s) ==
  IF s = <<>> THEN <<>>
  ELSE IF Head(s) \in WS THEN DropWs(Tail(s)) ELSE s

RECURSIVE DropWsEnd(_)
DropWsEnd(s) ==
  IF s = <<>> THEN <<>>
  ELSE IF s[Len(s)] \in WS THEN DropWsEnd(SubSeq(s, 1, Len(s) - 1)) ELSE s

\* String.prototype.trim
Trim(s) == DropWsEnd(DropWs(s))

\* s.replace(/\s+/g, " ")
RECURSIVE CollapseWs(_)
CollapseWs(s) ==
  IF s = <<>> THEN <<>>
  ELSE IF Head(s) \in WS THEN <<" ">> \o CollapseWs(DropWs(Tail(s)))
  ELSE <<Head(s)>> \o CollapseWs(Tail(s))

\* s.replace(/\s+/g, "")
RemoveWs(s) == SelectSeq(s, LAMBDA c : c \notin WS)

\* t.replace(/(\d)\s+(?=\d)/g, "$1") on a string whose blank runs are single:
\* a blank between two digits is dropped
RECURSIVE HealFrom(_, _)
HealFrom(t, i) ==
  IF i > Len(t) THEN <<>>
  ELSE IF /\ t[i] \in WS
          /\ i > 1 /\ IsDigit(t[i - 1])
          /\ i < Len(t) /\ IsDigit(t[i + 1])
       THEN HealFrom(t, i + 1)
       ELSE <<t[i]>> \o HealFrom(t, i + 1)

HealDigits(t) == HealFrom(t, 1)

\* String(n).padStart(2, "0")
z2(n) ==
  IF Len(n) >= 2 THEN n
  ELSE IF Len(n) = 1 THEN <<"0">> \o n
  ELSE <<"0", "0">>

\* s.split(sep) for a one-character separator
RECURSIVE SplitOn(_, _)
SplitOn(s, sep) ==
  IF \A i \in 1..Len(s) : s[i] # sep THEN <<s>>
  ELSE LET k == CHOOSE i \in 1..Len(s) :
                  s[i] = sep /\ \A j \in 1..(i - 1) : s[j] # sep
       IN <<SubSeq(s, 1, k - 1)>> \o SplitOn(SubSeq(s, k + 1, Len(s)), sep)

(***************************************************************************)
(* normalizeDetails and its helpers.  null is the empty string: every      *)
(* caller tests the result with "!x", which the empty string also passes.  *)
(***************************************************************************)
Null == <<>>

normalizeTime(raw) ==
  IF raw = <<>> THEN Null
  ELSE
    LET t == HealDigits(Trim(CollapseWs(raw)))
        n == Len(t)
    IN  \* ^(\d{1,2})[.:](\d{2})$
        IF /\ n \in {4, 5}
           /\ t[n - 2] \in {".", ":"}
           /\ AllDigits(SubSeq(t, 1, n - 3))
           /\ AllDigits(SubSeq(t, n - 1, n))
        THEN z2(SubSeq(t, 1, n - 3)) \o <<":">> \o SubSeq(t, n - 1, n)
        \* ^(\d{1,2})$
        ELSE IF n \in {1, 2} /\ AllDigits(t)
        THEN z2(t) \o <<":", "0", "0">>
        ELSE Null

normalizeDate(raw) ==
  IF raw = <<>> THEN Null
  ELSE
    LET d == Trim(RemoveWs(raw))
        p == SplitOn(d, ".")
    IN  \* ^(\d{1,2})\.(\d{1,2})\.(\d{4})$
        IF /\ Len(p) = 3
           /\ Len(p[1]) \in {1, 2} /\ AllDigits(p[1])
           /\ Len(p[2]) \in {1, 2} /\ AllDigits(p[2])
           /\ Len(p[3]) = 4 /\ AllDigits(p[3])
        THEN z2(p[1]) \o <<".">> \o z2(p[2]) \o <<".">> \o p[3]
        ELSE Null

normalizeZip(raw) ==
  LET z == Trim(raw)
  IN  IF Len(z) = 5 /\ AllDigits(z) THEN z ELSE Null

normalizeCity(raw) == Trim(CollapseWs(raw))

NoDetails == [date |-> Null, time |-> Null, zip |-> Null, city |-> Null]

normalizeDetails(details) ==
  IF details = NoDetails THEN NoDetails
  ELSE
    LET date == normalizeDate(details.date)
        time == normalizeTime(details.time)
        zip  == normalizeZip(details.zip)
        city == normalizeCity(details.city)
    IN  IF date = Null \/ time = Null \/ zip = Null THEN NoDetails
        ELSE [date |-> date, time |-> time, zip |-> zip, city |-> city]

\* `${norm.date}_${norm.time}_${norm.zip}`
JobKey(norm) == norm.date \o <<"_">> \o norm.time \o <<"_">> \o norm.zip


(***************************************************************************)
(* Bounds of the model                                                     *)
(***************************************************************************)
\* messages that arrive in the mailbox
MaxMsgs == 1
\* POST /trigger requests
MaxTriggers == 2
\* IMAP commands (a fetch, a store of \Seen) that fail
MaxFaults == 1
\* distinct jobs offered to a processed-job set: enough to pass its cap
MaxDistinctJobs == 1002
\* jobs offered to a processed-job set a second time
MaxRepeats == 2

(***************************************************************************)
(* State                                                                   *)
(***************************************************************************)
VARIABLES
  build,            \* which entry point and watcher are deployed
  \* UmzugshilfeService
  isProcessing,     \* this.isProcessing
  processedJobs,    \* this.processedJobs, a Set in insertion order
  jobQueue,         \* this.jobQueue
  stats,            \* this.stats
  running,          \* activations of handleNewJob(s) between isProcessing = true and finally
  redispatch,       \* callbacks of setTimeout(..., 1000) not yet run, oldest first
  applied,          \* the calls made to the automator, in order (history)
  returnedTrue,     \* the keys for which the automator has returned success (history)
  settled,          \* the last handler call to return: its caller, key and result
  nTriggers,        \* POST /trigger requests made so far
  \* EmailWatcher
  mailbox,          \* the messages of the sender: subject and \Seen flag
  checks,           \* checkForNewEmails activations in progress
  pushBusy,         \* the busy flag of attachPush's closure
  wProcessed,       \* this.processedJobs of the watcher
  emailRetryCount,  \* this.emailRetryCount
  invoked,          \* messages for which jobHandler was called (history)
  faults,           \* IMAP commands that have failed so far
  lastOp,           \* the last operation on a processed-job set
  \* UmzugshilfeAutomator
  page,             \* the listings of the site's Meine Jobs view
  call,             \* the call of applyToJobByDetails in flight
  \* EmailWatcher, the sending side
  mailer,           \* this.transporter and the last notification call
  \* the subject parser
  parse,            \* the calls of the subject parser on one subject (history)
  \* UmzugshilfeAutomator, the session
  auth,             \* the call of _ensureAuthenticated in flight: its stack of calls
  \* EmailWatcher, the IMAP connection
  imap              \* this.imapConnection and every Imap object made so far, the flags, the timer

svcVars == <<isProcessing, processedJobs, jobQueue, stats, running, redispatch,
             applied, returnedTrue, settled, nTriggers>>
watchVars == <<mailbox, checks, pushBusy, wProcessed, emailRetryCount, invoked,
               faults>>
autoVars == <<page, call>>
sideVars == <<mailer, parse, auth, imap>>
vars == <<build, svcVars, watchVars, lastOp, autoVars, sideVars>>

(***************************************************************************)
(* Sets in insertion order (JavaScript Set)                                *)
(***************************************************************************)
Elems(q) == {q[i] : i \in 1..Len(q)}

SetHas(q, k) == k \in Elems(q)

SetAdd(q, k) == IF SetHas(q, k) THEN q ELSE Append(q, k)

\* Array.prototype.slice(-n)
SliceLast(q, n) == IF Len(q) <= n THEN q ELSE SubSeq(q, Len(q) - n + 1, Len(q))

(***************************************************************************)
(* UmzugshilfeService of the details-only entry point                      *)
(***************************************************************************)
\* the soft cap of a processed-job set and what an eviction keeps
ProcessedCap == 1000
ProcessedKeep == 500

InvalidDetails == <<"INVALID_DETAILS">>

Resolved(succ, fail, q, err) ==
  [promise |-> "resolved", successful |-> succ, failed |-> fail,
   queued |-> q, error |-> err]

Rejected ==
  [promise |-> "rejected", successful |-> <<>>, failed |-> <<>>,
   queued |-> FALSE, error |-> TRUE]

Svc ==
  [isProcessing |-> isProcessing, processedJobs |-> processedJobs,
   jobQueue |-> jobQueue, stats |-> stats, running |-> running,
   redispatch |-> redispatch, applied |-> applied, returnedTrue |-> returnedTrue]

SetSvc(S) ==
  /\ isProcessing' = S.isProcessing
  /\ processedJobs' = S.processedJobs
  /\ jobQueue' = S.jobQueue
  /\ stats' = S.stats
  /\ running' = S.running
  /\ redispatch' = S.redispatch
  /\ applied' = S.applied
  /\ returnedTrue' = S.returnedTrue

\* a service whose processed-job set holds nothing back
neverProcessed(S, jobKey) == FALSE

\* a service whose processing flag holds nothing back
neverBusy(S) == FALSE

\* if (this.processedJobs.has(jobKey))
alreadyProcessed(S, jobKey) == SetHas(S.processedJobs, jobKey)

\* if (this.isProcessing)
busy(S) == S.isProcessing

\* which way handleNewJob goes before its first await
Dispatch(S, jobDetails) ==
  LET norm == normalizeDetails(jobDetails)
  IN  IF norm = NoDetails THEN "invalid"
      ELSE IF alreadyProcessed(S, JobKey(norm)) THEN "duplicate"
      ELSE IF busy(S) THEN "queued"
      ELSE "started"

\* handleNewJob up to its first await: the service after it
handleNewJob(S, jobDetails, caller) ==
  LET norm == normalizeDetails(jobDetails)
      jobKey == JobKey(norm)
      way == Dispatch(S, jobDetails)
  IN  IF way \in {"invalid", "duplicate"} THEN S
      ELSE IF way = "queued" THEN
        [S EXCEPT !.processedJobs = SetAdd(@, jobKey),
                  !.jobQueue = Append(@, [jobDetails |-> norm])]
      ELSE
        [S EXCEPT !.processedJobs = SetAdd(@, jobKey),
                  !.isProcessing = TRUE,
                  !.running = @ \cup {[id |-> Len(S.applied) + 1, jobKey |-> jobKey,
                                       jobDetails |-> norm, caller |-> caller,
                                       pc |-> "apply", outcome |-> "none"]},
                  !.applied = Append(@, jobKey)]

\* what handleNewJob returns when it returns before its first await
EarlyResult(S, jobDetails) ==
  LET way == Dispatch(S, jobDetails)
      jobKey == JobKey(normalizeDetails(jobDetails))
  IN  IF way = "invalid" THEN Resolved(<<>>, <<InvalidDetails>>, FALSE, FALSE)
      ELSE IF way = "duplicate" THEN Resolved(<<jobKey>>, <<>>, FALSE, FALSE)
      ELSE Resolved(<<>>, <<>>, TRUE, FALSE)

\* processQueuedJobs
processQueuedJobs(S) ==
  IF Len(S.jobQueue) > 0 /\ ~S.isProcessing
  THEN [S EXCEPT !.jobQueue = Tail(@),
                 !.redispatch = Append(@, Head(S.jobQueue).jobDetails)]
  ELSE S

\* the finally block of handleNewJob, for activation r
finallyBlock(S, r) ==
  processQueuedJobs([S EXCEPT !.isProcessing = FALSE, !.running = @ \ {r}])

\* the statistics after applyToJobByDetails has returned success (a boolean)
statsAfter(st, success) ==
  [st EXCEPT !.totalJobsProcessed = @ + 1,
             !.successCount = @ + (IF success THEN 1 ELSE 0),
             !.failCount = @ + (IF success THEN 0 ELSE 1)]

\* the catch block of handleNewJob: the statistics
statsCaught(st) == [st EXCEPT !.failCount = @ + 1]

\* what the catch block of handleNewJob gives its caller
caughtResult(jobKey) == Resolved(<<>>, <<jobKey>>, FALSE, TRUE)

\* what activation r gives its caller once applyToJobByDetails ended in outcome
finalResult(r, outcome) ==
  IF outcome = "true" THEN Resolved(<<r.jobKey>>, <<>>, FALSE, FALSE)
  ELSE IF outcome = "false" THEN Resolved(<<>>, <<r.jobKey>>, FALSE, FALSE)
  ELSE caughtResult(r.jobKey)

\* cleanupProcessedJobs
cleanupProcessedJobs(q) ==
  IF Len(q) > ProcessedCap THEN SliceLast(q, ProcessedKeep) ELSE q

(***************************************************************************)
(* Regular-expression pieces.  A position is an index into the string; 0   *)
(* is "no match" and every piece passes it on.                             *)
(***************************************************************************)
UpperAZ == {"A", "B", "C", "D", "E", "F", "G", "H", "I", "J", "K", "L", "M",
            "N", "O", "P", "Q", "R", "S", "T", "U", "V", "W", "X", "Y", "Z"}

LowerAZ == {"a", "b", "c", "d", "e", "f", "g", "h", "i", "j", "k", "l", "m",
            "n", "o", "p", "q", "r", "s", "t", "u", "v", "w", "x", "y", "z"}

Umlauts == {"Ä", "Ö", "Ü", "ä", "ö", "ü", "ß"}

\* \p{L}, for the letters the inputs use
Letters == UpperAZ \cup LowerAZ \cup Umlauts

\* \w
IsWord(c) == c \in UpperAZ \cup LowerAZ \cup Digits \cup {"_"}

LowerOf ==
  [c \in UpperAZ \cup {"Ä", "Ö", "Ü"} |->
     CASE c = "A" -> "a" [] c = "B" -> "b" [] c = "C" -> "c" [] c = "D" -> "d"
       [] c = "E" -> "e" [] c = "F" -> "f" [] c = "G" -> "g" [] c = "H" -> "h"
       [] c = "I" -> "i" [] c = "J" -> "j" [] c = "K" -> "k" [] c = "L" -> "l"
       [] c = "M" -> "m" [] c = "N" -> "n" [] c = "O" -> "o" [] c = "P" -> "p"
       [] c = "Q" -> "q" [] c = "R" -> "r" [] c = "S" -> "s" [] c = "T" -> "t"
       [] c = "U" -> "u" [] c = "V" -> "v" [] c = "W" -> "w" [] c = "X" -> "x"
       [] c = "Y" -> "y" [] c = "Z" -> "z" [] c = "Ä" -> "ä" [] c = "Ö" -> "ö"
       [] c = "Ü" -> "ü"]

\* the string a case-insensitive pattern is matched against
LowerStr(s) == [i \in 1..Len(s) |-> IF s[i] \in DOMAIN LowerOf THEN LowerOf[s[i]] ELSE s[i]]

\* the character at position i, "" outside the string
At(s, i) == IF i >= 1 /\ i <= Len(s) THEN s[i] ELSE ""

\* \b at position i: between the characters i-1 and i
WordBoundary(s, i) == IsWord(At(s, i - 1)) # IsWord(At(s, i))

\* the length of the run of digits / of blanks that starts at position i
RECURSIVE DigitRun(_, _)
DigitRun(s, i) == IF IsDigit(At(s, i)) THEN 1 + DigitRun(s, i + 1) ELSE 0

RECURSIVE WsRun(_, _)
WsRun(s, i) == IF At(s, i) \in WS THEN 1 + WsRun(s, i + 1) ELSE 0

LitAt(s, i, lit) ==
  /\ i >= 1
  /\ i + Len(lit) - 1 <= Len(s)
  /\ SubSeq(s, i, i + Len(lit) - 1) = lit

\* the member of a one-element set: { F(x) : x \in {e} } computes e once and
\* names it x
Only(S) == CHOOSE x \in S : TRUE

\* each gives the position after the piece when it starts at position at,
\* or 0
AfterLit(s, at, lit) ==
  Only({IF p # 0 /\ LitAt(s, p, lit) THEN p + Len(lit) ELSE 0 : p \in {at}})

\* \s+
AfterWs(s, at) ==
  Only({IF p # 0 /\ WsRun(s, p) > 0 THEN p + WsRun(s, p) ELSE 0 : p \in {at}})

\* \s*
AfterOptWs(s, at) == Only({IF p = 0 THEN 0 ELSE p + WsRun(s, p) : p \in {at}})

\* \d{lo,hi} where what follows is not a digit
AfterDigits(s, at, lo, hi) ==
  Only({IF p # 0 /\ DigitRun(s, p) >= lo /\ DigitRun(s, p) <= hi
        THEN p + DigitRun(s, p) ELSE 0 : p \in {at}})

\* \b; the position may be one past the end
AfterBoundary(s, at) ==
  Only({IF p # 0 /\ WordBoundary(s, p) THEN p ELSE 0 : p \in {at}})

\* the smallest member of a non-empty set of positions, 0 for the empty set
MinPos(P) == IF P = {} THEN 0 ELSE CHOOSE p \in P : \A q \in P : p <= q

Positions(s) == 1..Len(s)

(***************************************************************************)
(* parseJobDetailsFromText of the watcher that keeps a retry budget        *)
(***************************************************************************)
\* [A-ZÄÖÜa-zäöüß\-\.\s]
TextCityClass == Letters \cup {"-", "."} \cup WS

Gesucht == <<"g", "e", "s", "u", "c", "h", "t">>

\* the end of the lazy group ([...]+?) that starts at p and is followed by
\* \s+gesucht (matched in l, the lower-cased string), or 0
TextCityEnd(s, l, p) ==
  IF p = 0 THEN 0
  ELSE MinPos({e \in p..Len(s) :
                 /\ \A j \in p..e : s[j] \in TextCityClass
                 /\ AfterLit(l, AfterWs(s, e + 1), Gesucht) # 0})

\* the positions of the groups of subjectPattern when it matches at i
TextMatchAt(s, i) ==
  LET l == LowerStr(s)
      a1 == IF DigitRun(s, i) > 0 THEN i + DigitRun(s, i) ELSE 0
      a2 == AfterLit(l, AfterWs(s, a1), <<"u", "m", "z", "u", "g", "s", "h", "e", "l", "f", "e", "r">>)
      a3 == AfterLit(l, AfterWs(s, a2), <<"a", "m">>)
      d0 == AfterWs(s, a3)
      d1 == AfterLit(s, AfterDigits(s, d0, 1, 2), <<".">>)
      d2 == AfterLit(s, AfterDigits(s, d1, 1, 2), <<".">>)
      d3 == AfterDigits(s, d2, 4, 4)
      a4 == AfterLit(l, AfterWs(s, d3), <<"a", "b">>)
      t0 == AfterWs(s, a4)
      t1 == AfterLit(s, AfterDigits(s, t0, 1, 2), <<":">>)
      t2 == AfterDigits(s, t1, 2, 2)
      a5 == AfterLit(l, AfterWs(s, t2), <<"u", "h", "r">>)
      a6 == AfterLit(l, AfterWs(s, a5), <<"i", "n">>)
      z0 == AfterWs(s, a6)
      z1 == AfterDigits(s, z0, 5, 5)
      c0 == AfterWs(s, z1)
      c1 == TextCityEnd(s, l, c0)
  IN  [ok |-> c1 # 0, d0 |-> d0, d3 |-> d3, t0 |-> t0, t2 |-> t2,
       z0 |-> z0, z1 |-> z1, c0 |-> c0, c1 |-> c1]

\* city.replace(/\s+(gesucht|neu|wartend|new)$/i, "")
StripTrailingWord(c) ==
  LET l == LowerStr(c)
      words == {Gesucht, <<"n", "e", "u">>, <<"w", "a", "r", "t", "e", "n", "d">>,
                <<"n", "e", "w">>}
      \* the leftmost start of a \s+ run that a listed word follows to the end
      cut == MinPos({p \in Positions(c) :
                       \E w \in words : AfterLit(l, AfterWs(c, p), w) = Len(c) + 1})
  IN  IF cut = 0 THEN c ELSE SubSeq(c, 1, cut - 1)

\* .replace(/[.,!?]+$/, "")
RECURSIVE StripTrailingPunct(_)
StripTrailingPunct(c) ==
  IF c # <<>> /\ c[Len(c)] \in {".", ",", "!", "?"}
  THEN StripTrailingPunct(SubSeq(c, 1, Len(c) - 1)) ELSE c

\* hours.padStart(2, "0") on the part before the colon
PadHour(time) ==
  LET timeParts == SplitOn(time, ":")
  IN  IF Len(timeParts) = 2
      THEN z2(timeParts[1]) \o <<":">> \o timeParts[2]
      ELSE time

\* city.replace(...).replace(...).trim()
cleanCity(city) ==
  Only({Trim(StripTrailingPunct(c)) : c \in {StripTrailingWord(city)}})

\* the result object, from the groups m of the match in cleanText
TextDetails(cleanText, m) ==
  [date |-> SubSeq(cleanText, m.d0, m.d3 - 1),
   time |-> PadHour(SubSeq(cleanText, m.t0, m.t2 - 1)),
   zip |-> SubSeq(cleanText, m.z0, m.z1 - 1),
   city |-> Only({cleanCity(city) : city \in {Trim(SubSeq(cleanText, m.c0, m.c1))}})]

\* cleanText.match(subjectPattern) and what follows it
TextResult(cleanText) ==
  LET i == MinPos({p \in Positions(cleanText) : TextMatchAt(cleanText, p).ok})
  IN  IF i = 0 THEN NoDetails
      ELSE Only({TextDetails(cleanText, m) : m \in {TextMatchAt(cleanText, i)}})

parseJobDetailsFromText(text) ==
  IF text = <<>> THEN NoDetails
  ELSE Only({TextResult(cleanText) : cleanText \in {Trim(CollapseWs(text))}})

(***************************************************************************)
(* parseJobDetailsFromSubject of the watcher that marks a message read     *)
(* once its handler has returned                                           *)
(***************************************************************************)
\* /registrierung|registration|verify|best[äa]tig/i.test(s)
IsNonJobMail(s) ==
  LET l == LowerStr(s)
  IN  \E p \in Positions(s) :
        \E w \in {<<"r", "e", "g", "i", "s", "t", "r", "i", "e", "r", "u", "n", "g">>,
                  <<"r", "e", "g", "i", "s", "t", "r", "a", "t", "i", "o", "n">>,
                  <<"v", "e", "r", "i", "f", "y">>,
                  <<"b", "e", "s", "t", "ä", "t", "i", "g">>,
                  <<"b", "e", "s", "t", "a", "t", "i", "g">>} : LitAt(l, p, w)

\* the optional single character c at p
AfterOpt(s, at, c) == Only({IF p # 0 /\ At(s, p) = c THEN p + 1 ELSE p : p \in {at}})

\* s.replace(/\bmorgen,?\s*/i, "")
RemoveMorgen(s) ==
  LET l == LowerStr(s)
      endAt(p) == AfterOptWs(s, AfterOpt(s, AfterLit(l, AfterBoundary(s, p),
                      <<"m", "o", "r", "g", "e", "n">>), ","))
      i == MinPos({p \in Positions(s) : endAt(p) # 0})
  IN  IF i = 0 THEN s
      ELSE SubSeq(s, 1, i - 1) \o SubSeq(s, endAt(i), Len(s))

\* /\b(\d{1,2})\.(\d{1,2})\.(\d{4})\b/ at position i
DateWithYearAt(s, i) ==
  LET d1 == AfterDigits(s, AfterBoundary(s, i), 1, 2)
      m0 == AfterLit(s, d1, <<".">>)
      m1 == AfterDigits(s, m0, 1, 2)
      y0 == AfterLit(s, m1, <<".">>)
      \* \d{4}\b: four digits and then no word character
      y1 == IF y0 # 0 /\ DigitRun(s, y0) = 4 THEN AfterBoundary(s, y0 + 4) ELSE 0
  IN  [ok |-> y1 # 0, d0 |-> i, d1 |-> d1, m0 |-> m0, m1 |-> m1, y0 |-> y0, y1 |-> y1]

\* /\b(\d{1,2})\.(\d{1,2})\.?\b/ at position i: after the second group either
\* a dot and a word character, or a boundary
DateNoYearAt(s, i) ==
  LET d1 == AfterDigits(s, AfterBoundary(s, i), 1, 2)
      m0 == AfterLit(s, d1, <<".">>)
      m1 == AfterDigits(s, m0, 1, 2)
      e  == IF AfterBoundary(s, AfterLit(s, m1, <<".">>)) # 0
            THEN m1 + 1 ELSE AfterBoundary(s, m1)
  IN  [ok |-> e # 0, d0 |-> i, d1 |-> d1, m0 |-> m0, m1 |-> m1]

\* \b(?:um|ab)\s+ at position i (in the lower-cased string l)
AfterUmAb(s, l, i) ==
  LET b == AfterBoundary(s, i)
      w == IF AfterLit(l, b, <<"u", "m">>) # 0 THEN AfterLit(l, b, <<"u", "m">>)
           ELSE AfterLit(l, b, <<"a", "b">>)
  IN  AfterWs(s, w)

\* (\d{1,2})sep(\d{2}) from h0 on, the second group ending a run of digits
HourMinute(s, at, sep) ==
  Only({Only({[ok |-> n1 # 0,
               hh |-> IF n1 = 0 THEN Null ELSE SubSeq(s, h0, n1 - 4),
               mm |-> IF n1 = 0 THEN Null ELSE SubSeq(s, n1 - 2, n1 - 1),
               end |-> n1]
              : n1 \in {AfterDigits(s, AfterLit(s, AfterDigits(s, h0, 1, 2), <<sep>>), 2, 2)}})
        : h0 \in {at}})

NoTime == [ok |-> FALSE, hh |-> Null, mm |-> Null]

Found(hh, mm) == [ok |-> TRUE, hh |-> hh, mm |-> mm]

\* /\b(?:um|ab)\s+(\d{1,2}):(\d{2})\b/i
TimeColon(s) ==
  LET l == LowerStr(s)
      at(p) == HourMinute(s, AfterUmAb(s, l, p), ":")
      i == MinPos({p \in Positions(s) : at(p).ok /\ AfterBoundary(s, at(p).end) # 0})
  IN  IF i = 0 THEN NoTime ELSE Found(at(i).hh, at(i).mm)

\* /\b(?:um|ab)\s+(\d{1,2})\.(\d{2})(?!\.)\b/i
TimeDot(s) ==
  LET l == LowerStr(s)
      at(p) == HourMinute(s, AfterUmAb(s, l, p), ".")
      i == MinPos({p \in Positions(s) :
                     /\ at(p).ok
                     /\ At(s, at(p).end) # "."
                     /\ AfterBoundary(s, at(p).end) # 0})
  IN  IF i = 0 THEN NoTime ELSE Found(at(i).hh, at(i).mm)

\* /\b(?:um|ab)\s+(\d{1,2})(?:\s*Uhr)?\b/i
TimeHour(s) ==
  LET l == LowerStr(s)
      h0(p) == AfterUmAb(s, l, p)
      h1(p) == AfterDigits(s, h0(p), 1, 2)
      uhr(p) == AfterLit(l, AfterOptWs(s, h1(p)), <<"u", "h", "r">>)
      i == MinPos({p \in Positions(s) :
                     \/ AfterBoundary(s, uhr(p)) # 0
                     \/ AfterBoundary(s, h1(p)) # 0})
  IN  IF i = 0 THEN NoTime ELSE Found(SubSeq(s, h0(i), h1(i) - 1), <<"0", "0">>)

\* (^|[^0-9.]) ends just before position h
AfterStartOrOther(s, h) ==
  h = 1 \/ (h > 1 /\ h <= Len(s) + 1 /\ s[h - 1] \notin Digits \cup {"."})

\* /(^|[^0-9.])(\d{1,2}):(\d{2})\b/
TimeBareColon(s) ==
  LET at(h) == HourMinute(s, h, ":")
      i == MinPos({h \in Positions(s) :
                     /\ AfterStartOrOther(s, h)
                     /\ at(h).ok
                     /\ AfterBoundary(s, at(h).end) # 0})
  IN  IF i = 0 THEN NoTime ELSE Found(at(i).hh, at(i).mm)

\* /(^|[^0-9.])(\d{1,2})\.(\d{2})\b(?!\.)/
TimeBareDot(s) ==
  LET at(h) == HourMinute(s, h, ".")
      i == MinPos({h \in Positions(s) :
                     /\ AfterStartOrOther(s, h)
                     /\ at(h).ok
                     /\ AfterBoundary(s, at(h).end) # 0
                     /\ At(s, at(h).end) # "."})
  IN  IF i = 0 THEN NoTime ELSE Found(at(i).hh, at(i).mm)

\* the five time patterns, in the order the code tries them
SubjectTime(s) ==
  Only({IF a.ok THEN a ELSE
        Only({IF b.ok THEN b ELSE
              Only({IF c.ok THEN c ELSE
                    Only({IF d.ok THEN d ELSE TimeBareDot(s) : d \in {TimeBareColon(s)}})
                    : c \in {TimeHour(s)}})
              : b \in {TimeDot(s)}})
        : a \in {TimeColon(s)}})

\* [\p{L}\-.'()\/\s]
SubjectCityClass == Letters \cup {"-", ".", "'", "(", ")", "/"} \cup WS

\* the end of the lazy group that starts at p and is followed by
\* \s+gesucht\b or by the end of the string, or 0
SubjectCityEnd(s, p) ==
  IF p = 0 THEN 0
  ELSE MinPos({e \in p..Len(s) :
                 /\ \A j \in p..e : s[j] \in SubjectCityClass
                 /\ \/ AfterBoundary(s, AfterLit(s, AfterWs(s, e + 1), Gesucht)) # 0
                    \/ e = Len(s)})

\* /\b(\d{5})\s+([\p{L}\-.'()\/\s]+?)(?:\s+gesucht\b|$)/u at position i
LocAt(s, i) ==
  LET z1 == AfterDigits(s, AfterBoundary(s, i), 5, 5)
      c0 == AfterWs(s, z1)
      c1 == SubjectCityEnd(s, c0)
  IN  [ok |-> c1 # 0, z0 |-> i, z1 |-> z1, c0 |-> c0, c1 |-> c1]

\* new Date().getFullYear(), as the four digits of the template literal
Years == {<<"2", "0", "2", "5">>, <<"2", "0", "2", "6">>}

\* the date of the subject s: DD.MM.YYYY as written, or DD.MM. with the
\* year y; Null where s has neither
SubjectDate(s, y) ==
  LET i1 == MinPos({p \in Positions(s) : DateWithYearAt(s, p).ok})
      i2 == MinPos({p \in Positions(s) : DateNoYearAt(s, p).ok})
  IN  IF i1 # 0 THEN
        Only({z2(SubSeq(s, m.d0, m.d1 - 1)) \o <<".">>
                \o z2(SubSeq(s, m.m0, m.m1 - 1)) \o <<".">>
                \o SubSeq(s, m.y0, m.y1 - 1) : m \in {DateWithYearAt(s, i1)}})
      ELSE IF i2 # 0 THEN
        Only({z2(SubSeq(s, m.d0, m.d1 - 1)) \o <<".">>
                \o z2(SubSeq(s, m.m0, m.m1 - 1)) \o <<".">> \o y
              : m \in {DateNoYearAt(s, i2)}})
      ELSE Null

\* the zip and the city of the subject s; NoDetails where s has none
SubjectLoc(s) ==
  LET il == MinPos({p \in Positions(s) : LocAt(s, p).ok})
  IN  IF il = 0 THEN NoDetails
      ELSE Only({[NoDetails EXCEPT !.zip = SubSeq(s, loc.z0, loc.z1 - 1),
                                   !.city = Trim(CollapseWs(SubSeq(s, loc.c0, loc.c1)))]
                 : loc \in {LocAt(s, il)}})

\* the subject s, normalised and without "morgen,", taken apart
SubjectDetails(s, y) ==
  Only({IF dateStr = Null THEN NoDetails
        ELSE IF ~t.ok THEN NoDetails
        ELSE IF loc = NoDetails THEN NoDetails
        ELSE [date |-> dateStr, time |-> z2(t.hh) \o <<":">> \o t.mm,
              zip |-> loc.zip, city |-> loc.city]
        : dateStr \in {SubjectDate(s, y)}, t \in {SubjectTime(s)},
          loc \in {SubjectLoc(s)}})

parseJobDetailsFromSubject(subject, y) ==
  IF subject = <<>> THEN NoDetails
  ELSE Only({IF IsNonJobMail(s0) THEN NoDetails
             ELSE Only({SubjectDetails(s, y) : s \in {RemoveMorgen(s0)}})
             : s0 \in {Trim(CollapseWs(subject))}})

(***************************************************************************)
(* Inputs                                                                  *)
(***************************************************************************)
\* "2 Umzugshelfer am 23.08.2025 ab 15:00 Uhr in 58452 Witten gesucht"
SubjectWitten ==
  <<"2", " ", "U", "m", "z", "u", "g", "s", "h", "e", "l", "f", "e", "r", " ",
    "a", "m", " ", "2", "3", ".", "0", "8", ".", "2", "0", "2", "5", " ",
    "a", "b", " ", "1", "5", ":", "0", "0", " ", "U", "h", "r", " ", "i", "n", " ",
    "5", "8", "4", "5", "2", " ", "W", "i", "t", "t", "e", "n", " ",
    "g", "e", "s", "u", "c", "h", "t">>

\* "3 Umzugshelfer am 24.08.2025 ab 9:00 Uhr in 50670 Köln gesucht"
SubjectKoeln ==
  <<"3", " ", "U", "m", "z", "u", "g", "s", "h", "e", "l", "f", "e", "r", " ",
    "a", "m", " ", "2", "4", ".", "0", "8", ".", "2", "0", "2", "5", " ",
    "a", "b", " ", "9", ":", "0", "0", " ", "U", "h", "r", " ", "i", "n", " ",
    "5", "0", "6", "7", "0", " ", "K", "ö", "l", "n", " ",
    "g", "e", "s", "u", "c", "h", "t">>

\* "Bitte bestätigen Sie Ihre Registrierung"
SubjectRegistrierung ==
  <<"B", "i", "t", "t", "e", " ", "b", "e", "s", "t", "ä", "t", "i", "g", "e", "n", " ",
    "S", "i", "e", " ", "I", "h", "r", "e", " ",
    "R", "e", "g", "i", "s", "t", "r", "i", "e", "r", "u", "n", "g">>

Subjects == {SubjectWitten, SubjectKoeln, SubjectRegistrierung}

\* bodies of POST /trigger: the Witten job written as the mail writes it,
\* the same job written differently, and a body whose time is no time
TriggerBodies ==
  {[date |-> <<"2", "3", ".", "0", "8", ".", "2", "0", "2", "5">>,
    time |-> <<"1", "5", ":", "0", "0">>,
    zip |-> <<"5", "8", "4", "5", "2">>, city |-> <<"W", "i", "t", "t", "e", "n">>],
   [date |-> <<"2", "3", ".", "8", ".", "2", "0", "2", "5">>,
    time |-> <<"1", "5", ".", "0", "0">>,
    zip |-> <<" ", "5", "8", "4", "5", "2">>, city |-> <<"W", "i", "t", "t", "e", "n">>],
   [date |-> <<"2", "3", ".", "0", "8", ".", "2", "0", "2", "5">>,
    time |-> <<"n", "o", "o", "n">>,
    zip |-> <<"5", "8", "4", "5", "2">>, city |-> <<"W", "i", "t", "t", "e", "n">>],
   [date |-> <<>>, time |-> <<"1", "5", ":", "0", "0">>,
    zip |-> <<"5", "8", "4", "5", "2">>, city |-> <<"W", "i", "t", "t", "e", "n">>]}

\* job-id lists handed to handleNewJobs of the job-id entry point
JobIdLists == {<<>>, <<"101">>, <<"101", "102">>}

\* what the subject parser of each watcher makes of each subject
ParsedSubject == [s \in Subjects |-> [y \in Years |-> parseJobDetailsFromSubject(s, y)]]

ParsedText == [s \in Subjects |-> parseJobDetailsFromText(s)]

(***************************************************************************)
(* EmailWatcher: the dedup tracker, the retry counters and the steps of    *)
(* checkForNewEmails.  A check is a record: its position (pc), the uids    *)
(* its search returned and has not yet finished (the first is the one it   *)
(* works on), and what it found out about that message.                    *)
(***************************************************************************)
\* retryCount >= 3 after a handler failure, >= 2 after a parse failure or an exception
HandlerRetryBudget == 3
ParseRetryBudget == 2

\* a watcher that takes every job for a new one
neverSeen(tracker, jobKey) == FALSE

isJobAlreadyProcessed(tracker, jobKey) == SetHas(tracker, jobKey)

\* a tracker that appends the key whether or not it holds it
markAlwaysAppends(tracker, jobKey) ==
  LET added == Append(tracker, jobKey)
  IN  IF Len(added) > ProcessedCap THEN SliceLast(added, ProcessedKeep) ELSE added

markJobAsProcessed(tracker, jobKey) ==
  LET added == SetAdd(tracker, jobKey)
  IN  IF Len(added) > ProcessedCap THEN SliceLast(added, ProcessedKeep) ELSE added

Wat ==
  [mailbox |-> mailbox, checks |-> checks, pushBusy |-> pushBusy,
   wProcessed |-> wProcessed, emailRetryCount |-> emailRetryCount,
   invoked |-> invoked]

SetWat(W) ==
  /\ mailbox' = W.mailbox
  /\ checks' = W.checks
  /\ pushBusy' = W.pushBusy
  /\ wProcessed' = W.wProcessed
  /\ emailRetryCount' = W.emailRetryCount
  /\ invoked' = W.invoked

\* the checks that can be in progress together: the one the 'mail' event
\* starts (its busy flag allows no second) and one the polling timer starts
CheckIds == {"push", "poll"}

IdleCheck ==
  [pc |-> "idle", uids |-> <<>>, jobKey |-> Null, result |-> "none",
   dup |-> FALSE, retries |-> 0]

getEmailRetryCount(W, uid) == W.emailRetryCount[uid]

incrementEmailRetryCount(W, uid) == [W EXCEPT !.emailRetryCount[uid] = @ + 1]

clearEmailRetryCount(W, uid) == [W EXCEPT !.emailRetryCount[uid] = 0]

\* search(["UNSEEN", ["FROM", ...]]): the uids of the unread messages
RECURSIVE UnseenFrom(_, _)
UnseenFrom(box, uid) ==
  IF uid > Len(box) THEN <<>>
  ELSE (IF box[uid].seen THEN <<>> ELSE <<uid>>) \o UnseenFrom(box, uid + 1)

searchEmails(box) == UnseenFrom(box, 1)

\* a watcher whose check returns with the message it is at
returnsAtOnce(W, id) ==
  [W EXCEPT !.checks[id] = IdleCheck,
            !.pushBusy = IF id = "push" THEN FALSE ELSE @]

\* the for loop goes to its next uid, or checkForNewEmails returns; the
\* finally of the 'mail' handler then clears busy
nextUid(W, id) ==
  LET rest == Tail(W.checks[id].uids)
  IN  [W EXCEPT !.checks[id] = IF rest = <<>> THEN IdleCheck
                               ELSE [IdleCheck EXCEPT !.pc = "fetch", !.uids = rest],
                !.pushBusy = IF id = "push" /\ rest = <<>> THEN FALSE ELSE @]

\* await this.markAsRead(uid) is reached: result, dup and retries say what
\* the check knew of the message when it got there
toMarkAsRead(W, id, result, dup) ==
  [W EXCEPT !.checks[id].pc = "mark",
            !.checks[id].result = result,
            !.checks[id].dup = dup,
            !.checks[id].retries = getEmailRetryCount(W, Head(W.checks[id].uids))]

\* retry-budget watcher: the catch block of the loop body
caughtRetry(W, id) ==
  LET uid == Head(W.checks[id].uids)
  IN  IF getEmailRetryCount(W, uid) >= ParseRetryBudget
      THEN toMarkAsRead(W, id, "threw", FALSE)
      ELSE nextUid(incrementEmailRetryCount(W, uid), id)

\* retry-budget watcher: the subject did not parse
unparsedRetry(W, id) ==
  LET uid == Head(W.checks[id].uids)
  IN  IF getEmailRetryCount(W, uid) >= ParseRetryBudget
      THEN toMarkAsRead(W, id, "unparsed", FALSE)
      ELSE nextUid(incrementEmailRetryCount(W, uid), id)

\* result && result.results && result.results.successful.length > 0
handlerSuccess(res) == Len(res.successful) > 0

ResultClass(res) ==
  IF res.promise = "rejected" THEN "rejected"
  ELSE IF handlerSuccess(res) THEN "success" ELSE "failure"

\* retry-budget watcher: after await jobHandler(details)
afterHandlerRetry(W, id, res) ==
  LET c == W.checks[id]
      uid == Head(c.uids)
      H == W
  IN  IF res.promise = "rejected" THEN caughtRetry(H, id)
      ELSE IF handlerSuccess(res)
      THEN toMarkAsRead([H EXCEPT !.wProcessed = markJobAsProcessed(@, c.jobKey)],
                        id, "success", FALSE)
      ELSE IF getEmailRetryCount(H, uid) >= HandlerRetryBudget
      THEN toMarkAsRead(H, id, "failure", FALSE)
      ELSE nextUid(incrementEmailRetryCount(H, uid), id)

\* the other watcher: after await jobHandler(details) comes
\* await this.markAsRead(uid), whatever the handler returned
afterHandlerNew(W, id, res) ==
  LET c == W.checks[id]
      uid == Head(c.uids)
      H == W
  IN  IF res.promise = "rejected" THEN nextUid(H, id)
      ELSE toMarkAsRead(H, id, ResultClass(res),
                        isJobAlreadyProcessed(H.wProcessed, c.jobKey))

afterHandler(W, id, res) ==
  IF build = "details_retry" THEN afterHandlerRetry(W, id, res)
  ELSE afterHandlerNew(W, id, res)

\* markAsRead(uid) has ended: the flag is set, or the command failed
markAsReadDone(W, id, ok) ==
  LET uid == Head(W.checks[id].uids)
  IN  IF ~ok THEN nextUid(W, id)
      ELSE IF build = "details_retry"
      THEN nextUid(clearEmailRetryCount([W EXCEPT !.mailbox[uid].seen = TRUE], uid), id)
      ELSE nextUid([W EXCEPT !.mailbox[uid].seen = TRUE], id)

\* a watcher that takes every subject for a job
alwaysParsed(details) == TRUE

\* if (details)
parsed(details) == details # NoDetails

\* `${details.date}_${details.time}_${details.zip}` of the parsed details
WatcherKey(details) == details.date \o <<"_">> \o details.time \o <<"_">> \o details.zip

(***************************************************************************)
(* The service and the watcher together                                    *)
(***************************************************************************)
NoOp ==
  [op |-> "none", key |-> Null, had |-> FALSE, sizeBefore |-> 0,
   distinct |-> 0, repeats |-> 0]

\* no call of applyToJobByDetails in flight
IdleCall ==
  [pc |-> "idle", job |-> NoDetails, searched |-> NoDetails, stage |-> "none",
   scope |-> "none", target |-> 0, statusBefore |-> "", submitted |-> FALSE,
   postOk |-> TRUE, result |-> "none"]

\* no notification sent yet; the transporter is the one initialize() made
NoSend == [op |-> "none", sendMail |-> 0, result |-> "none"]

ConfiguredMailer == [transporter |-> TRUE, last |-> NoSend]

\* no call of _ensureAuthenticated in flight
IdleAuth == [stack |-> <<>>, ret |-> "none", submissions |-> 0, result |-> "none"]

\* no subject handed to the parser yet
NoParse == [subject |-> Null, form |-> NoDetails, lacks |-> "none", calls |-> <<>>]

\* constructor: this.reconnectDelayMs = 5000
InitialDelayMs == 5000

\* an Imap object: where its socket is ("connecting" after connect(), "open"
\* after 'ready', "closing" after end(), "closed" after 'end'), what the
\* _reconnectImap that made it is awaiting, and its 'mail' listeners
ImapObject(phase, await, mail) == [phase |-> phase, await |-> await, mail |-> mail]

\* the watcher after initialize() and startPolling(): one connection, open,
\* with the listeners of setupImapHandlers and attachPush
InitializedImap ==
  [conns |-> <<ImapObject("open", "none", 1)>>, cur |-> 1,
   connected |-> TRUE, imapReady |-> TRUE,
   reconnectTimer |-> FALSE, timers |-> 0,
   reconnectDelayMs |-> InitialDelayMs, scheduled |-> <<>>,
   pollingInterval |-> TRUE, stopped |-> FALSE,
   lastCheck |-> "none"]

NoStats == [totalJobsProcessed |-> 0, successCount |-> 0, failCount |-> 0]

Builds == {"details_new", "details_retry", "legacy"}

\* a handler call that returned: who called, for which key, how the
\* automator's call ended ("none" where the handler made none) and the result
Outcome(caller, jobKey, outcome, res) ==
  [caller |-> caller, jobKey |-> jobKey, outcome |-> outcome, result |-> res]

NoOutcome == Outcome("none", Null, "none", Resolved(<<>>, <<>>, FALSE, FALSE))

Init ==
  /\ build \in Builds
  /\ isProcessing = FALSE
  /\ processedJobs = <<>>
  /\ jobQueue = <<>>
  /\ stats = NoStats
  /\ running = {}
  /\ redispatch = <<>>
  /\ applied = <<>>
  /\ returnedTrue = {}
  /\ settled = NoOutcome
  /\ nTriggers = 0
  /\ mailbox = <<>>
  /\ checks = [id \in CheckIds |-> IdleCheck]
  /\ pushBusy = FALSE
  /\ wProcessed = <<>>
  /\ emailRetryCount = [uid \in 1..MaxMsgs |-> 0]
  /\ invoked = {}
  /\ faults = 0
  /\ lastOp = NoOp
  /\ page = <<>>
  /\ call = IdleCall
  /\ mailer = ConfiguredMailer
  /\ parse = NoParse
  /\ auth = IdleAuth
  /\ imap = InitializedImap

Details == build \in {"details_new", "details_retry"}

\* a call of handleNewJob(jobDetails) up to its first await, made by anything
\* but a check: the caller has its result at once unless the job was started
CallHandleNewJob(jobDetails, caller) ==
  /\ SetSvc(handleNewJob(Svc, jobDetails, caller))
  /\ settled' = IF Dispatch(Svc, jobDetails) = "started" THEN settled
                ELSE Outcome(caller.kind, JobKey(normalizeDetails(jobDetails)),
                             "none", EarlyResult(Svc, jobDetails))

\* jobHandler(details) called by check id for the message it works on
CallFromCheck(W, id, details) ==
  LET uid == Head(W.checks[id].uids)
      caller == [kind |-> "check", id |-> id]
      W1 == [W EXCEPT !.invoked = @ \cup {uid}, !.checks[id].pc = "handler"]
  IN  /\ CallHandleNewJob(details, caller)
      /\ SetWat(IF Dispatch(Svc, details) = "started" THEN W1
                ELSE afterHandler(W1, id, EarlyResult(Svc, details)))

\* a message of the known sender arrives
MailArrives(subject) ==
  /\ Details
  /\ Len(mailbox) < MaxMsgs
  /\ mailbox' = Append(mailbox, [subject |-> subject, seen |-> FALSE])
  /\ UNCHANGED <<build, sideVars, autoVars, svcVars, checks, pushBusy, wProcessed, emailRetryCount,
                 invoked, faults, lastOp>>

\* checkForNewEmails up to the result of its search; a search that finds
\* nothing returns.  The 'mail' event starts its check unless busy.
CheckStarts(id) ==
  /\ Details
  /\ checks[id].pc = "idle"
  /\ id = "push" => ~pushBusy
  /\ searchEmails(mailbox) # <<>>
  /\ checks' = [checks EXCEPT ![id] = [IdleCheck EXCEPT !.pc = "fetch",
                                                        !.uids = searchEmails(mailbox)]]
  /\ pushBusy' = IF id = "push" THEN TRUE ELSE pushBusy
  /\ UNCHANGED <<build, sideVars, autoVars, svcVars, mailbox, wProcessed, emailRetryCount, invoked,
                 faults, lastOp>>

\* the fetch of the subject ends, and the loop body runs to its next await
CheckMessage(id, fetchOk, y) ==
  /\ Details
  /\ checks[id].pc = "fetch"
  /\ fetchOk \/ faults < MaxFaults
  /\ faults' = IF fetchOk THEN faults ELSE faults + 1
  /\ LET uid == Head(checks[id].uids)
         subject == mailbox[uid].subject
     IN  IF build = "details_retry" THEN
           LET details == ParsedText[subject]
               jobKey == WatcherKey(details)
               W == [Wat EXCEPT !.checks[id].jobKey = jobKey]
           IN  IF ~fetchOk THEN SetWat(caughtRetry(Wat, id)) /\ UNCHANGED svcVars
               ELSE IF ~parsed(details)
               THEN SetWat(unparsedRetry(Wat, id)) /\ UNCHANGED svcVars
               ELSE IF isJobAlreadyProcessed(wProcessed, jobKey)
               THEN SetWat(toMarkAsRead(W, id, "none", TRUE)) /\ UNCHANGED svcVars
               ELSE CallFromCheck(W, id, details) /\ UNCHANGED nTriggers
         ELSE
           LET details == ParsedSubject[subject][y]
               W == [Wat EXCEPT !.checks[id].jobKey = WatcherKey(details)]
           IN  IF ~fetchOk \/ ~parsed(details)
               THEN SetWat(nextUid(Wat, id)) /\ UNCHANGED svcVars
               ELSE CallFromCheck(W, id, details) /\ UNCHANGED nTriggers
  /\ UNCHANGED <<build, sideVars, autoVars, lastOp>>

\* markAsRead(uid) ends
MarkAsReadEnds(id, ok) ==
  /\ Details
  /\ checks[id].pc = "mark"
  /\ ok \/ faults < MaxFaults
  /\ faults' = IF ok THEN faults ELSE faults + 1
  /\ SetWat(markAsReadDone(Wat, id, ok))
  /\ UNCHANGED <<build, sideVars, autoVars, svcVars, lastOp>>

\* POST /trigger: 400 without date, time and zip; else handleNewJob(body)
Trigger(body) ==
  /\ Details
  /\ nTriggers < MaxTriggers
  /\ nTriggers' = nTriggers + 1
  /\ IF body.date = Null \/ body.time = Null \/ body.zip = Null
     THEN UNCHANGED <<isProcessing, processedJobs, jobQueue, stats, running,
                      redispatch, applied, returnedTrue, settled>>
     ELSE CallHandleNewJob(body, [kind |-> "trigger", id |-> "none"])
  /\ UNCHANGED <<build, sideVars, autoVars, watchVars, lastOp>>

\* handleNewJob returns res for activation r: the finally block runs, and
\* the caller goes on with res
Finish(S, r, outcome, res) ==
  /\ SetSvc(finallyBlock(S, r))
  /\ settled' = Outcome(r.caller.kind, r.jobKey, outcome, res)
  /\ IF r.caller.kind = "check"
     THEN SetWat(afterHandler(Wat, r.caller.id, res)) /\ UNCHANGED faults
     ELSE UNCHANGED watchVars

\* await this.automator.applyToJobByDetails(norm) ends: it returned true or
\* false, or it threw
ApplyReturns(r, outcome) ==
  /\ Details
  /\ r \in running
  /\ r.pc = "apply"
  /\ IF outcome = "true" THEN
       \* await sendSuccessNotification
       /\ SetSvc([Svc EXCEPT !.stats = statsAfter(@, TRUE),
                             !.returnedTrue = @ \cup {r.jobKey},
                             !.running = (@ \ {r}) \cup
                                 {[r EXCEPT !.pc = "notify", !.outcome = outcome]}])
       /\ UNCHANGED <<settled, watchVars>>
     ELSE IF outcome = "false" THEN
       Finish([Svc EXCEPT !.stats = statsAfter(@, FALSE)], r, outcome,
              finalResult(r, outcome))
     ELSE
       \* catch: await sendErrorNotification
       /\ SetSvc([Svc EXCEPT !.stats = statsCaught(@),
                             !.running = (@ \ {r}) \cup
                                 {[r EXCEPT !.pc = "notify", !.outcome = outcome]}])
       /\ UNCHANGED <<settled, watchVars>>
  /\ UNCHANGED <<build, sideVars, autoVars, nTriggers, lastOp>>

\* the notification the handler awaits has been sent, or has failed and
\* been logged
NotifyEnds(r) ==
  /\ Details
  /\ r \in running
  /\ r.pc = "notify"
  /\ Finish(Svc, r, r.outcome, finalResult(r, r.outcome))
  /\ UNCHANGED <<build, sideVars, autoVars, nTriggers, lastOp>>

\* the callback of processQueuedJobs' setTimeout: handleNewJob(nextJob.jobDetails)
TimerFires ==
  /\ Details
  /\ redispatch # <<>>
  /\ LET jobDetails == Head(redispatch)
         S == [Svc EXCEPT !.redispatch = Tail(@)]
     IN  /\ SetSvc(handleNewJob(S, jobDetails, [kind |-> "timer", id |-> "none"]))
         /\ settled' = IF Dispatch(S, jobDetails) = "started" THEN settled
                       ELSE Outcome("timer", JobKey(normalizeDetails(jobDetails)),
                                    "none", EarlyResult(S, jobDetails))
  /\ UNCHANGED <<build, sideVars, autoVars, nTriggers, watchVars, lastOp>>

\* setInterval(() => this.cleanupProcessedJobs(), 60000)
CleanupTick ==
  /\ Details
  /\ processedJobs' = cleanupProcessedJobs(processedJobs)
  /\ UNCHANGED <<build, sideVars, autoVars, isProcessing, jobQueue, stats, running, redispatch, applied,
                 returnedTrue, settled, nTriggers, watchVars, lastOp>>

(***************************************************************************)
(* The job-id entry point: handleNewJobs(jobIds)                           *)
(***************************************************************************)
\* handleNewJobs up to its first await
handleNewJobs(S, jobIds, caller) ==
  IF Len(jobIds) = 0 THEN S
  ELSE IF busy(S)
  THEN \* setTimeout(() => this.handleNewJobs(jobIds), 1000)
       [S EXCEPT !.redispatch = Append(@, jobIds)]
  ELSE [S EXCEPT !.isProcessing = TRUE,
                 !.running = @ \cup {[id |-> Len(S.applied) + 1, jobKey |-> jobIds,
                                      jobDetails |-> jobIds, caller |-> caller,
                                      pc |-> "apply", outcome |-> "none"]},
                 !.applied = Append(@, jobIds)]

\* the statistics after processJobs has returned results
statsAfterJobs(st, jobIds, results) ==
  [st EXCEPT !.totalJobsProcessed = @ + Len(jobIds),
             !.successCount = @ + Len(results.successful),
             !.failCount = @ + Len(results.failed)]

\* what processJobs can return for jobIds: every job applied, or none
jobsResults(jobIds, outcome) ==
  IF outcome = "true" THEN [successful |-> jobIds, failed |-> <<>>]
  ELSE [successful |-> <<>>, failed |-> jobIds]

\* what handleNewJobs gives its caller: the results, or the error rethrown
\* by its catch block
finalResultJobs(r, outcome) ==
  IF outcome \in {"true", "false"}
  THEN Resolved(jobsResults(r.jobKey, outcome).successful,
                jobsResults(r.jobKey, outcome).failed, FALSE, FALSE)
  ELSE Rejected

\* the finally block of handleNewJobs
finallyJobs(S, r) == [S EXCEPT !.isProcessing = FALSE, !.running = @ \ {r}]

\* POST /trigger: handleNewJobs(jobIds); the watcher calls it the same way
LegacyTrigger(jobIds) ==
  /\ build = "legacy"
  /\ nTriggers < MaxTriggers
  /\ nTriggers' = nTriggers + 1
  /\ SetSvc(handleNewJobs(Svc, jobIds, [kind |-> "trigger", id |-> "none"]))
  /\ UNCHANGED <<build, sideVars, autoVars, settled, watchVars, lastOp>>

\* the callback of handleNewJobs' setTimeout
LegacyTimerFires ==
  /\ build = "legacy"
  /\ redispatch # <<>>
  /\ SetSvc(handleNewJobs([Svc EXCEPT !.redispatch = Tail(@)], Head(redispatch),
                          [kind |-> "timer", id |-> "none"]))
  /\ UNCHANGED <<build, sideVars, autoVars, settled, nTriggers, watchVars, lastOp>>

\* await this.automator.processJobs(jobIds) ends
LegacyProcessReturns(r, outcome) ==
  /\ build = "legacy"
  /\ r \in running
  /\ r.pc = "apply"
  /\ LET results == jobsResults(r.jobKey, outcome)
         st == IF outcome = "throw"
               THEN [stats EXCEPT !.failCount = @ + Len(r.jobKey)]
               ELSE statsAfterJobs(stats, r.jobKey, results)
     IN  IF outcome = "false"
         THEN /\ SetSvc(finallyJobs([Svc EXCEPT !.stats = st], r))
              /\ settled' = Outcome(r.caller.kind, r.jobKey, outcome,
                                     finalResultJobs(r, outcome))
         ELSE \* await sendSuccessNotification / sendErrorNotification
              /\ SetSvc([Svc EXCEPT !.stats = st,
                                    !.returnedTrue = @ \cup Elems(results.successful),
                                    !.running = (@ \ {r}) \cup
                                        {[r EXCEPT !.pc = "notify", !.outcome = outcome]}])
              /\ UNCHANGED settled
  /\ UNCHANGED <<build, sideVars, autoVars, nTriggers, watchVars, lastOp>>

LegacyNotifyEnds(r) ==
  /\ build = "legacy"
  /\ r \in running
  /\ r.pc = "notify"
  /\ SetSvc(finallyJobs(Svc, r))
  /\ settled' = Outcome(r.caller.kind, r.jobKey, r.outcome,
                         finalResultJobs(r, r.outcome))
  /\ UNCHANGED <<build, sideVars, autoVars, nTriggers, watchVars, lastOp>>

ApplyOutcomes == {"true", "false", "throw"}

Next ==
  \/ \E subject \in Subjects : MailArrives(subject)
  \/ \E id \in CheckIds : CheckStarts(id)
  \/ \E id \in CheckIds, fetchOk \in BOOLEAN, y \in Years : CheckMessage(id, fetchOk, y)
  \/ \E id \in CheckIds, ok \in BOOLEAN : MarkAsReadEnds(id, ok)
  \/ \E body \in TriggerBodies : Trigger(body)
  \/ \E r \in running, outcome \in ApplyOutcomes : ApplyReturns(r, outcome)
  \/ \E r \in running : NotifyEnds(r)
  \/ TimerFires
  \/ CleanupTick
  \/ \E jobIds \in JobIdLists : LegacyTrigger(jobIds)
  \/ LegacyTimerFires
  \/ \E r \in running, outcome \in ApplyOutcomes : LegacyProcessReturns(r, outcome)
  \/ \E r \in running : LegacyNotifyEnds(r)

Spec == Init /\ [][Next]_vars

(***************************************************************************)
(* Properties of the service and the watcher                               *)
(***************************************************************************)
\* nothing is in flight, queued or waiting for its timer
Quiescent == running = {} /\ jobQueue = <<>> /\ redispatch = <<>>

\* how often key k was handed to the automator
TimesApplied(k) == Cardinality({i \in 1..Len(applied) : applied[i] = k})

\* C1: single-flight.  At most one call of handleNewJob / handleNewJobs is
\* between isProcessing = true and its finally block, so at most one
\* automator call is in flight, and while one is the flag is set.
C1_SingleFlight ==
  /\ Cardinality(running) <= 1
  /\ running # {} => isProcessing

\* a job arrived while another was in flight: it waits in the queue (or for
\* its retry timer) while the first is still with the automator
C1_Witness ==
  /\ \E r \in running : r.pc = "apply"
  /\ Len(jobQueue) > 0 \/ Len(redispatch) > 0

\* C2: a job that arrived while another was in flight is applied once that
\* one has completed.  Stated on a run that has come to rest: when nothing
\* is in flight, queued or waiting for its timer, every job that
\* handleNewJob accepted has been handed to the automator.
C2_QueuedJobIsApplied ==
  Details /\ Quiescent => \A k \in Elems(processedJobs) : TimesApplied(k) >= 1

\* C3: while a key is in the service's processed set the automator is not
\* called for it again: whenever applyToJobByDetails is invoked, its key was
\* not in the set when handleNewJob was entered.
C3_NoRepeatWhileProcessed ==
  [][Details /\ Len(applied') > Len(applied)
       => ~SetHas(processedJobs, applied'[Len(applied')])]_vars

\* handleNewJob has just turned away details whose key was applied before
\* and is still in the set
C3_Witness ==
  /\ Details
  /\ settled.outcome = "none"
  /\ settled.result.successful = <<settled.jobKey>>
  /\ SetHas(processedJobs, settled.jobKey)
  /\ TimesApplied(settled.jobKey) = 1

\* the retry budget of the message a check works on is used up
BudgetExhausted(c) ==
  \/ c.result = "failure" /\ c.retries >= HandlerRetryBudget
  \/ c.result \in {"unparsed", "threw"} /\ c.retries >= ParseRetryBudget

\* C4: a check marks a message read only if the handler reported success
\* for it, its key was in the dedup set, or its retry budget is exhausted.
C4_MarkedOnlyWhenDone ==
  \A id \in CheckIds :
    checks[id].pc = "mark" =>
      \/ checks[id].result = "success"
      \/ checks[id].dup
      \/ BudgetExhausted(checks[id])

\* the subject of message uid is one the deployed parser rejects
Rejects(uid) ==
  IF build = "details_retry" THEN ParsedText[mailbox[uid].subject] = NoDetails
  ELSE \A y \in Years : ParsedSubject[mailbox[uid].subject][y] = NoDetails

\* C5: the job handler is never invoked for a message whose subject the
\* parser rejects.
C5_RejectedNeverHandled ==
  \A uid \in invoked : ~Rejects(uid)

\* a rejected message has been through its checks and is marked read
\* without the handler having been called
C5_Witness ==
  \E uid \in 1..Len(mailbox) :
    Rejects(uid) /\ mailbox[uid].seen /\ uid \notin invoked

\* C10: when the automator throws, the handler's caller gets a rejected
\* promise; when it returns false, the caller gets a result with the key in
\* results.failed.
C10_ThrowRejects ==
  /\ settled.outcome = "throw" => settled.result.promise = "rejected"
  /\ settled.outcome = "false" =>
       /\ settled.result.promise = "resolved"
       /\ settled.result.failed # <<>>

(***************************************************************************)
(* The processed-job sets on their own: many distinct jobs, some of them   *)
(* offered again, reach the watcher's tracker (markJobAsProcessed) or the  *)
(* service (handleNewJob, while its first job is still with the            *)
(* automator), and the service's cleanup timer ticks.                      *)
(***************************************************************************)
DigitOf == <<"0", "1", "2", "3", "4", "5", "6", "7", "8", "9">>

\* the n-th zip code, counted from 10000
ZipOf(n) ==
  <<DigitOf[1 + (((10000 + n) \div 10000) % 10)], DigitOf[1 + (((10000 + n) \div 1000) % 10)],
    DigitOf[1 + (((10000 + n) \div 100) % 10)], DigitOf[1 + (((10000 + n) \div 10) % 10)],
    DigitOf[1 + ((10000 + n) % 10)]>>

\* the n-th job: same day and hour, its own zip
JobOf(n) ==
  [date |-> <<"2", "3", ".", "0", "8", ".", "2", "0", "2", "5">>,
   time |-> <<"1", "5", ":", "0", "0">>,
   zip |-> ZipOf(n), city |-> <<"W", "i", "t", "t", "e", "n">>]

TrackerBuilds == {"tracker", "service_set"}

InitDedup ==
  /\ build \in TrackerBuilds
  /\ isProcessing = FALSE
  /\ processedJobs = <<>>
  /\ jobQueue = <<>>
  /\ stats = NoStats
  /\ running = {}
  /\ redispatch = <<>>
  /\ applied = <<>>
  /\ returnedTrue = {}
  /\ settled = NoOutcome
  /\ nTriggers = 0
  /\ mailbox = <<>>
  /\ checks = [id \in CheckIds |-> IdleCheck]
  /\ pushBusy = FALSE
  /\ wProcessed = <<>>
  /\ emailRetryCount = [uid \in 1..MaxMsgs |-> 0]
  /\ invoked = {}
  /\ faults = 0
  /\ lastOp = NoOp
  /\ page = <<>>
  /\ call = IdleCall
  /\ mailer = ConfiguredMailer
  /\ parse = NoParse
  /\ auth = IdleAuth
  /\ imap = InitializedImap

\* the jobs that can be offered next: the next new one, and again the
\* first and the latest
Offers ==
  (IF lastOp.distinct < MaxDistinctJobs THEN {lastOp.distinct + 1} ELSE {})
    \cup (IF lastOp.distinct > 0 /\ lastOp.repeats < MaxRepeats
          THEN {1, lastOp.distinct} ELSE {})

Offered(op, n, set, key) ==
  [op |-> op, key |-> key, had |-> SetHas(set, key), sizeBefore |-> Len(set),
   distinct |-> IF n > lastOp.distinct THEN n ELSE lastOp.distinct,
   repeats |-> IF n > lastOp.distinct THEN lastOp.repeats ELSE lastOp.repeats + 1]

\* the watcher has had job n handled: this.markJobAsProcessed(jobKey)
TrackerMark(n) ==
  /\ build = "tracker"
  /\ n \in Offers
  /\ wProcessed' = markJobAsProcessed(wProcessed, WatcherKey(JobOf(n)))
  /\ lastOp' = Offered("mark", n, wProcessed, WatcherKey(JobOf(n)))
  /\ UNCHANGED <<build, sideVars, autoVars, svcVars, mailbox, checks, pushBusy, emailRetryCount,
                 invoked, faults>>

\* handleNewJob(job n), called over POST /trigger
ServiceJob(n) ==
  /\ build = "service_set"
  /\ n \in Offers
  /\ CallHandleNewJob(JobOf(n), [kind |-> "trigger", id |-> "none"])
  /\ lastOp' = Offered("add", n, processedJobs, JobKey(normalizeDetails(JobOf(n))))
  /\ UNCHANGED <<build, sideVars, autoVars, nTriggers, watchVars>>

\* setInterval(() => this.cleanupProcessedJobs(), 60000)
ServiceCleanup ==
  /\ build = "service_set"
  /\ processedJobs' = cleanupProcessedJobs(processedJobs)
  /\ lastOp' = [lastOp EXCEPT !.op = "cleanup", !.sizeBefore = Len(processedJobs)]
  /\ UNCHANGED <<build, sideVars, autoVars, isProcessing, jobQueue, stats, running, redispatch, applied,
                 returnedTrue, settled, nTriggers, watchVars>>

NextDedup ==
  \/ \E n \in Offers : TrackerMark(n)
  \/ \E n \in Offers : ServiceJob(n)
  \/ ServiceCleanup

SpecDedup == InitDedup /\ [][NextDedup]_vars

\* C6: immediately after markJobAsProcessed(k) the tracker holds k, also
\* when the insertion evicted, and marking a key that was already there
\* does not grow the tracker.
C6_MarkThenHas ==
  lastOp.op = "mark" =>
    /\ isJobAlreadyProcessed(wProcessed, lastOp.key)
    /\ lastOp.had => Len(wProcessed) <= lastOp.sizeBefore

\* the mark that took the tracker over its cap and made it evict
C6_Witness ==
  /\ lastOp.op = "mark"
  /\ ~lastOp.had
  /\ lastOp.sizeBefore = ProcessedCap
  /\ Len(wProcessed) = ProcessedKeep

\* C7: after any insertions a processed-job set, the watcher's and the
\* service's, holds at most the cap of 1000 keys.
C7_SizeAtMostCap ==
  /\ Len(wProcessed) <= ProcessedCap
  /\ Len(processedJobs) <= ProcessedCap

(***************************************************************************)
(* applyToJobByDetails of the four automators, against a page of listings. *)
(* A listing is a div.entry: its text, whether the text sits in a          *)
(* span.date.location, its data-status, whether it holds a form and an     *)
(* accept control, and whether it shows a cancel control.                  *)
(***************************************************************************)
AutomatorBuilds ==
  {"automator_new", "automator_fetch", "automator_click", "automator_debug"}

Contains(hay, needle) == \E i \in 1..Len(hay) : LitAt(hay, i, needle)

\* norm of applyToJobByDetails: white space collapsed and trimmed
norm(s) == Trim(CollapseWs(s))

\* `Am ${date} um ${time} in ${zip}`
Needle(job) ==
  norm(<<"A", "m", " ">> \o job.date \o <<" ", "u", "m", " ">> \o job.time
         \o <<" ", "i", "n", " ">> \o job.zip)

\* filter({ hasText: needle }): a substring, case and white space ignored
HasText(text, needle) == Contains(LowerStr(norm(text)), LowerStr(norm(needle)))

\* Am\s+date\s+um\s+time matched in l at i: the position after it, or 0
AfterAmUm(l, i, date, time) ==
  AfterLit(l, AfterWs(l, AfterLit(l, AfterWs(l, AfterLit(l, AfterWs(l,
    AfterLit(l, i, <<"a", "m">>)), LowerStr(date))), <<"u", "m">>)), LowerStr(time))

\* \s+in\s+zip
AfterInZip(l, at, zip) ==
  AfterLit(l, AfterWs(l, AfterLit(l, AfterWs(l, at), <<"i", "n">>)), zip)

\* \s+city
AfterCity(l, at, city) == AfterLit(l, AfterWs(l, at), LowerStr(city))

\* the pattern of the fetching automator, flag i: the city must follow when
\* the job names one; without one the pattern ends in an optional group
DetailsRe(text, job) ==
  \E i \in Positions(text) :
    Only({z # 0 /\ (job.city # <<>> => AfterCity(LowerStr(text), z, job.city) # 0) :
          z \in {AfterInZip(LowerStr(text),
                            AfterAmUm(LowerStr(text), i, job.date, job.time), job.zip)}})

\* the pattern of the clicking automator: the city is an optional group
ClickRe(text, job) ==
  \E i \in Positions(text) :
    AfterInZip(LowerStr(text), AfterAmUm(LowerStr(text), i, job.date, job.time),
               job.zip) # 0

\* t(?:\s+Uhr)?\s+in\s+z from the position after t: with Uhr first
AfterUhrInZip(l, at, zip) ==
  Only({IF AfterInZip(l, u, zip) # 0 THEN AfterInZip(l, u, zip)
        ELSE AfterInZip(l, at, zip) : u \in {AfterLit(l, AfterWs(l, at), <<"u", "h", "r">>)}})

\* the pattern of _findEntryByLine, flag i
LineRe(text, job) ==
  \E i \in Positions(text) :
    /\ WordBoundary(LowerStr(text), i)
    /\ Only({AfterBoundary(LowerStr(text),
                           IF job.city # <<>> THEN AfterCity(LowerStr(text), z, job.city)
                           ELSE z) # 0 :
             z \in {AfterUhrInZip(LowerStr(text),
                                  AfterAmUm(LowerStr(text), i, job.date, job.time),
                                  job.zip)}})

\* div.entry[data-status="new"], div.entry[data-status="neu"]
IsNew(entry) == entry.status \in {"new", "neu"}

\* /(waiting|wartend|accepted|pending)/i on the data-status
StatusAccepted(status) == status \in {"waiting", "wartend", "accepted", "pending"}

\* the automator-simple-new locator: new entries with the span and the
\* text, else new entries with the text
MatchesNew(entry, job) == IsNew(entry) /\ HasText(entry.text, Needle(job))

\* the locators that look for the pattern in span.date.location
SpanMatches(entry, job) ==
  /\ entry.inSpan
  /\ IF build = "automator_click" THEN ClickRe(entry.text, job)
     ELSE DetailsRe(entry.text, job)

LineMatches(entry, job) == LineRe(entry.text, job)

\* what a locator selects: scope "new" is the new entries, "all" every entry
Selects(entry, job, scope) ==
  /\ scope = "new" => IsNew(entry)
  /\ CASE build = "automator_new" -> MatchesNew(entry, job)
       [] build = "automator_debug" -> LineMatches(entry, job)
       [] OTHER -> SpanMatches(entry, job)

\* the scope of the locator the automator ends up with, "none" when its
\* count() is 0 for each
ScopeFor(job) ==
  IF \E i \in 1..Len(page) : Selects(page[i], job, "new") THEN "new"
  ELSE IF build # "automator_new" /\ \E i \in 1..Len(page) : Selects(page[i], job, "all")
  THEN "all"
  ELSE "none"

\* entry.first() of that locator on the page as it is now: an index, or 0
FirstOf(job, scope) ==
  IF scope = "none" THEN 0
  ELSE MinPos({i \in 1..Len(page) : Selects(page[i], job, scope)})

\* time.replace(":", ".")
ReplaceColon(time) ==
  IF \A i \in 1..Len(time) : time[i] # ":" THEN time
  ELSE Only({SubSeq(time, 1, k - 1) \o <<".">> \o SubSeq(time, k + 1, Len(time)) :
             k \in {MinPos({i \in 1..Len(time) : time[i] = ":"})}})

\* the alternatives of the debugging automator, in order
alternatives(job) ==
  <<[job EXCEPT !.city = <<>>],
    [job EXCEPT !.time = ReplaceColon(job.time)],
    [job EXCEPT !.time = job.time \o <<" ", "U", "h", "r">>]>>

\* the first alternative with an entry, or 0
FirstAlternative(job) ==
  MinPos({a \in 1..3 : ScopeFor(alternatives(job)[a]) # "none"})

\* time = `${String(m[1]).padStart(2, "0")}:${m[2]}` when time is H:MM or HH:MM
padTime(time) ==
  Only({IF /\ Len(parts) = 2
           /\ Len(parts[1]) \in 1..2 /\ AllDigits(parts[1])
           /\ Len(parts[2]) = 2 /\ AllDigits(parts[2])
        THEN z2(parts[1]) \o <<":">> \o parts[2] ELSE time :
        parts \in {SplitOn(time, ":")}})

\* the listings a page is made of
ListingWitten ==
  [id |-> 1, text |-> <<"A", "m", " ", "2", "3", ".", "0", "8", ".", "2", "0", "2", "5", " ", "u", "m", " ", "1", "5", ":", "0", "0", " ", "i", "n", " ", "5", "8", "4", "5", "2", " ", "W", "i", "t", "t", "e", "n">>,
   inSpan |-> TRUE, status |-> "new", form |-> TRUE, accept |-> TRUE, cancel |-> FALSE]

ListingKoeln ==
  [id |-> 2, text |-> <<"A", "m", " ", "2", "4", ".", "0", "8", ".", "2", "0", "2", "5", " ", "u", "m", " ", "0", "9", ":", "0", "0", " ", "i", "n", " ", "5", "0", "6", "7", "0", " ", "K", "ö", "l", "n">>,
   inSpan |-> TRUE, status |-> "new", form |-> TRUE, accept |-> TRUE, cancel |-> FALSE]

\* the Witten listing with a tab and two blanks in its line
ListingWittenSpaced ==
  [ListingWitten EXCEPT !.text = <<"A", "m", "\t", "2", "3", ".", "0", "8", ".", "2", "0", "2", "5", " ", "u", "m", " ", "1", "5", ":", "0", "0", " ", "i", "n", " ", " ", "5", "8", "4", "5", "2", " ", "W", "i", "t", "t", "e", "n">>]

\* the Witten listing with Uhr after the time and no city
ListingWittenUhr ==
  <<"A", "m", " ", "2", "3", ".", "0", "8", ".", "2", "0", "2", "5", " ", "u", "m", " ", "1", "5", ":", "0", "0", " ", "U", "h", "r", " ", "i", "n", " ", "5", "8", "4", "5", "2">>

Pages ==
  {<<>>, <<ListingKoeln>>, <<ListingWitten, ListingKoeln>>,
   <<ListingKoeln, ListingWittenSpaced>>,
   <<[ListingWitten EXCEPT !.status = "waiting", !.cancel = TRUE], ListingKoeln>>,
   <<[ListingWitten EXCEPT !.accept = FALSE]>>,
   <<[ListingWitten EXCEPT !.inSpan = FALSE]>>,
   <<[ListingWitten EXCEPT !.text = ListingWittenUhr]>>,
   <<[ListingWitten EXCEPT !.status = "waiting", !.cancel = TRUE],
     [ListingWitten EXCEPT !.id = 3]>>}

JobWitten ==
  [date |-> <<"2", "3", ".", "0", "8", ".", "2", "0", "2", "5">>, time |-> <<"1", "5", ":", "0", "0">>, zip |-> <<"5", "8", "4", "5", "2">>, city |-> <<"W", "i", "t", "t", "e", "n">>]

\* the jobs callers pass: with or without a city, the hour padded or not
JobRecords ==
  {JobWitten, [JobWitten EXCEPT !.city = <<>>],
   [date |-> <<"2", "5", ".", "0", "8", ".", "2", "0", "2", "5">>, time |-> <<"9", ":", "3", "0">>, zip |-> <<"1", "0", "1", "1", "5">>, city |-> <<"B", "e", "r", "l", "i", "n">>]}

\* what the site does to a listing on a submission or by the next reload
Effects == {"gone", "accepted", "cancel", "none"}

Present(id) == \E i \in 1..Len(page) : page[i].id = id

Without(listings, id) == SelectSeq(listings, LAMBDA e : e.id # id)

After(listings, id, effect) ==
  CASE effect = "gone" -> Without(listings, id)
    [] effect = "accepted" ->
         [i \in 1..Len(listings) |->
            IF listings[i].id = id THEN [listings[i] EXCEPT !.status = "waiting"]
            ELSE listings[i]]
    [] effect = "cancel" ->
         [i \in 1..Len(listings) |->
            IF listings[i].id = id THEN [listings[i] EXCEPT !.cancel = TRUE]
            ELSE listings[i]]
    [] OTHER -> listings

InitApply ==
  /\ build \in AutomatorBuilds
  /\ isProcessing = FALSE
  /\ processedJobs = <<>>
  /\ jobQueue = <<>>
  /\ stats = NoStats
  /\ running = {}
  /\ redispatch = <<>>
  /\ applied = <<>>
  /\ returnedTrue = {}
  /\ settled = NoOutcome
  /\ nTriggers = 0
  /\ mailbox = <<>>
  /\ checks = [id \in CheckIds |-> IdleCheck]
  /\ pushBusy = FALSE
  /\ wProcessed = <<>>
  /\ emailRetryCount = [uid \in 1..MaxMsgs |-> 0]
  /\ invoked = {}
  /\ faults = 0
  /\ lastOp = NoOp
  /\ page \in Pages
  /\ call = IdleCall
  /\ mailer = ConfiguredMailer
  /\ parse = NoParse
  /\ auth = IdleAuth
  /\ imap = InitializedImap

Returned(c, result) == [c EXCEPT !.pc = "done", !.result = result]

\* applyToJobByDetails({ date, time, zip, city }) is called
ApplyStarts(job) ==
  /\ call.pc = "idle"
  /\ call' = [IdleCall EXCEPT
                !.pc = "locate",
                !.job = IF build \in {"automator_fetch", "automator_click"}
                        THEN [job EXCEPT !.time = padTime(job.time)] ELSE job,
                !.searched = job,
                !.stage = IF build = "automator_fetch" THEN "fresh" ELSE "live"]
  /\ UNCHANGED <<build, sideVars, svcVars, watchVars, lastOp, page>>

\* the entry is there: on to its form, or return without one
ToForm(c, job, scope, statusBefore) ==
  Only({IF IF build = "automator_fetch" THEN ~e.form ELSE ~e.accept
        THEN [Returned(c, "false") EXCEPT !.target = e.id, !.scope = scope]
        ELSE [c EXCEPT !.pc = "submit", !.searched = job, !.scope = scope,
                       !.target = e.id, !.statusBefore = statusBefore] :
        e \in {page[FirstOf(job, scope)]}})

\* _applyDirectFromFreshHTML up to its POST: entries.find over every entry
LocateFresh(c) ==
  IF \E i \in 1..Len(page) : Selects(page[i], c.job, "all")
     /\ page[FirstOf(c.job, "all")].form
  THEN ToForm(c, c.job, "all", "")
  ELSE [c EXCEPT !.stage = "live"]

\* from the page's refresh to the entry's locator
LocateLive(c) ==
  IF build \in {"automator_fetch", "automator_click"} /\ Len(page) = 0
  THEN Returned(c, "false")
  ELSE IF ScopeFor(c.job) # "none"
  THEN ToForm(c, c.job, ScopeFor(c.job),
              IF build = "automator_debug" THEN page[FirstOf(c.job, ScopeFor(c.job))].status
              ELSE "")
  ELSE IF build # "automator_debug" THEN Returned(c, "false")
  ELSE IF FirstAlternative(c.job) # 0
  THEN Only({ToForm(c, alt, ScopeFor(alt), "") :
             alt \in {alternatives(c.job)[FirstAlternative(c.job)]}})
  \* this._debugPageContent is not a function
  ELSE Returned(c, "throw")

LocateListing ==
  /\ call.pc = "locate"
  /\ call' = IF call.stage = "fresh" THEN LocateFresh(call) ELSE LocateLive(call)
  /\ UNCHANGED <<build, sideVars, svcVars, watchVars, lastOp, page>>

\* the click on the accept control, or the POST of the form, and what the
\* site makes of it
SubmitAccept(effect, ok) ==
  /\ call.pc = "submit"
  /\ page' = After(page, call.target, effect)
  /\ call' = [call EXCEPT !.pc = "verify", !.submitted = TRUE, !.postOk = ok]
  /\ UNCHANGED <<build, sideVars, svcVars, watchVars, lastOp>>

\* entry.count() of the call's locator on the page as it is now
StillThere(c) == FirstOf(c.searched, c.scope) # 0

\* the checks after the submission, up to the return or the reload
Verified(c) ==
  Only({CASE build = "automator_fetch" /\ c.stage = "fresh" ->
               IF c.postOk THEN Returned(c, "true")
               ELSE [c EXCEPT !.pc = "locate", !.stage = "live"]
          [] build = "automator_fetch" /\ c.stage = "live" /\ ~c.postOk ->
               Returned(c, "false")
          [] i = 0 -> Returned(c, "true")
          [] i # 0 /\ build = "automator_debug" ->
               Returned(c, IF c.statusBefore # page[i].status \/ page[i].cancel
                           THEN "true" ELSE "false")
          [] i # 0 /\ build # "automator_debug" /\ StatusAccepted(page[i].status) ->
               Returned(c, "true")
          [] i # 0 /\ build # "automator_debug" /\ ~StatusAccepted(page[i].status) ->
               IF page[i].cancel THEN Returned(c, "true")
               ELSE IF build = "automator_new" THEN [c EXCEPT !.pc = "reload"]
               ELSE Returned(c, "false") :
        i \in {FirstOf(c.searched, c.scope)}})

VerifyOutcome ==
  /\ call.pc = "verify"
  /\ call' = Verified(call)
  /\ UNCHANGED <<build, sideVars, svcVars, watchVars, lastOp, page>>

\* the final verification of automator-simple-new: reload and re-check
Reloaded(c, listings) ==
  Only({IF S = {} THEN Returned(c, "true")
        ELSE Returned(c, IF StatusAccepted(listings[MinPos(S)].status)
                         THEN "true" ELSE "false") :
        S \in {{i \in 1..Len(listings) : Selects(listings[i], c.searched, c.scope)}}})

ReloadPage(effect) ==
  /\ call.pc = "reload"
  /\ page' = After(page, call.target, effect)
  /\ call' = Reloaded(call, After(page, call.target, effect))
  /\ UNCHANGED <<build, sideVars, svcVars, watchVars, lastOp>>

\* the caller has the result; the automator is free for the next call
CallSettles ==
  /\ call.pc = "done"
  /\ call' = IdleCall
  /\ UNCHANGED <<build, sideVars, svcVars, watchVars, lastOp, page>>

NextApply ==
  \/ \E job \in JobRecords : ApplyStarts(job)
  \/ LocateListing
  \/ \E effect \in Effects, ok \in BOOLEAN : SubmitAccept(effect, ok)
  \/ VerifyOutcome
  \/ \E effect \in Effects : ReloadPage(effect)
  \/ CallSettles

SpecApply == InitApply /\ [][NextApply]_vars

\* no listing of the page names the job: none has "Am <date> um <time> in
\* <zip>" in its text
NoListingNames(job) == \A i \in 1..Len(page) : ~HasText(page[i].text, Needle(job))

\* C8: applyToJobByDetails called with a job that matches no listing on the
\* page returns false and does not throw.
C8_NoMatchReturnsFalse ==
  call.pc = "done" /\ call.target = 0 /\ NoListingNames(call.job) =>
    call.result = "false"

\* C9: applyToJobByDetails returns true whenever a listing was matched, its
\* accept form was submitted, and the listing is no longer on the page
\* after the submission.
C9_GoneMeansTrue ==
  call.pc = "done" /\ call.target # 0 /\ call.submitted /\ ~Present(call.target) =>
    call.result = "true"

(***************************************************************************)
(* The notifications: the service's handler with the mail transport under  *)
(* it, configured or not, each sendMail succeeding or failing.             *)
(***************************************************************************)
\* sendSuccessNotification: nothing without a transporter; else one
\* sendMail, whose failure is caught and logged
sendSuccessNotification(transporter, mailOk) ==
  [op |-> "success", sendMail |-> IF transporter THEN 1 ELSE 0, result |-> "returned"]

\* sendErrorNotification: the same
sendErrorNotification(transporter, mailOk) ==
  [op |-> "error", sendMail |-> IF transporter THEN 1 ELSE 0, result |-> "returned"]

\* sendTestEmail: throws without a transporter; its sendMail is not in a try
sendTestEmail(transporter, mailOk) ==
  IF ~transporter THEN [op |-> "test", sendMail |-> 0, result |-> "threw"]
  ELSE [op |-> "test", sendMail |-> 1, result |-> IF mailOk THEN "returned" ELSE "threw"]

InitNotify ==
  /\ build \in {"details_new", "details_retry"}
  /\ isProcessing = FALSE
  /\ processedJobs = <<>>
  /\ jobQueue = <<>>
  /\ stats = NoStats
  /\ running = {}
  /\ redispatch = <<>>
  /\ applied = <<>>
  /\ returnedTrue = {}
  /\ settled = NoOutcome
  /\ nTriggers = 0
  /\ mailbox = <<>>
  /\ checks = [id \in CheckIds |-> IdleCheck]
  /\ pushBusy = FALSE
  /\ wProcessed = <<>>
  /\ emailRetryCount = [uid \in 1..MaxMsgs |-> 0]
  /\ invoked = {}
  /\ faults = 0
  /\ lastOp = NoOp
  /\ page = <<>>
  /\ call = IdleCall
  /\ mailer \in {[transporter |-> tr, last |-> NoSend] : tr \in BOOLEAN}
  /\ parse = NoParse
  /\ auth = IdleAuth
  /\ imap = InitializedImap

\* the notification activation r awaits has ended, its sendMail having
\* succeeded or failed: the handler goes on from the await
NotifyDone(r, mailOk) ==
  /\ Details
  /\ r \in running
  /\ r.pc = "notify"
  /\ LET sent == IF r.outcome = "true"
                 THEN sendSuccessNotification(mailer.transporter, mailOk)
                 ELSE sendErrorNotification(mailer.transporter, mailOk)
     IN  /\ mailer' = [mailer EXCEPT !.last = sent]
         /\ UNCHANGED <<parse, auth, imap>>
         /\ IF sent.result = "returned"
            THEN Finish(Svc, r, r.outcome, finalResult(r, r.outcome))
            ELSE IF r.outcome = "true"
            \* thrown inside try: on to the catch block and its await
            THEN /\ SetSvc([Svc EXCEPT !.stats = statsCaught(@),
                                       !.running = (@ \ {r}) \cup
                                           {[r EXCEPT !.outcome = "throw"]}])
                 /\ UNCHANGED <<settled, watchVars>>
            \* thrown inside catch: out of the handler, past finally
            ELSE Finish(Svc, r, r.outcome, Rejected)
  /\ UNCHANGED <<build, autoVars, nTriggers, lastOp>>

\* POST /test-email: await this.emailWatcher.sendTestEmail()
TestEmail(mailOk) ==
  /\ mailer' = [mailer EXCEPT !.last = sendTestEmail(mailer.transporter, mailOk)]
  /\ UNCHANGED <<parse, auth, imap>>
  /\ UNCHANGED <<build, autoVars, svcVars, watchVars, lastOp>>

NextNotify ==
  \/ \E body \in TriggerBodies : Trigger(body)
  \/ \E r \in running, outcome \in ApplyOutcomes :
       ApplyReturns(r, outcome)
  \/ \E r \in running, mailOk \in BOOLEAN : NotifyDone(r, mailOk)
  \/ \E mailOk \in BOOLEAN : TestEmail(mailOk)

SpecNotify == InitNotify /\ [][NextNotify]_vars

\* C11: a mail-transport failure, or a missing transporter, inside
\* sendSuccessNotification, sendErrorNotification or sendTestEmail never
\* reaches the caller, is never retried, and leaves the result of
\* handleNewJob what the automator's outcome made it.
C11_FireAndLog ==
  /\ mailer.last.op # "none" =>
       mailer.last.result = "returned" /\ mailer.last.sendMail <= 1
  /\ settled.outcome = "true" =>
       /\ settled.result.promise = "resolved"
       /\ settled.result.successful = <<settled.jobKey>>
  /\ settled.outcome = "throw" =>
       /\ settled.result.promise = "resolved"
       /\ settled.result.failed = <<settled.jobKey>>

(***************************************************************************)
(* The subject parser on its own: one subject, parsed up to MaxParses      *)
(* times, each time in some calendar year.                                  *)
(***************************************************************************)
MaxParses == 2

\* the parts of "N Umzugshelfer am DD.MM.YYYY ab HH:MM Uhr in ZZZZZ City gesucht"
CanonCounts == {<<"2">>, <<"1", "0">>}

CanonDates == {<<"2", "3", ".", "0", "8", ".", "2", "0", "2", "5">>,
               <<"0", "1", ".", "1", "2", ".", "2", "0", "2", "6">>}

CanonTimes == {<<"1", "5", ":", "0", "0">>, <<"0", "9", ":", "3", "0">>, <<"0", "0", ":", "0", "0">>}

CanonZips == {<<"5", "8", "4", "5", "2">>, <<"1", "7", "4", "2", "9">>}

\* Witten, Köln, Bad Homburg, Morgenitz, Halle (Saale)
CanonCities ==
  {<<"W", "i", "t", "t", "e", "n">>,
   <<"K", "ö", "l", "n">>,
   <<"B", "a", "d", " ", "H", "o", "m", "b", "u", "r", "g">>,
   <<"M", "o", "r", "g", "e", "n", "i", "t", "z">>,
   <<"H", "a", "l", "l", "e", " ", "(", "S", "a", "a", "l", "e", ")">>}

CanonForms ==
  {[date |-> d, time |-> t, zip |-> z, city |-> c] :
     d \in CanonDates, t \in CanonTimes, z \in CanonZips, c \in CanonCities}

\* the subject the site writes for n helpers and the job f
Canonical(n, f) ==
  n \o <<" ", "U", "m", "z", "u", "g", "s", "h", "e", "l", "f", "e", "r", " ", "a", "m", " ">> \o f.date
    \o <<" ", "a", "b", " ">> \o f.time \o <<" ", "U", "h", "r", " ", "i", "n", " ">>
    \o f.zip \o <<" ">> \o f.city \o <<" ", "g", "e", "s", "u", "c", "h", "t">>

\* "2 Umzugshelfer am 23.08.2025 in 58452 Witten gesucht"
SubjectNoTime ==
  <<"2", " ", "U", "m", "z", "u", "g", "s", "h", "e", "l", "f", "e", "r", " ", "a", "m", " ", "2", "3", ".", "0", "8", ".", "2", "0", "2", "5", " ", "i", "n", " ", "5", "8", "4", "5", "2", " ", "W", "i", "t", "t", "e", "n", " ", "g", "e", "s", "u", "c", "h", "t">>

\* "2 Umzugshelfer am 23.08 in 58452 Witten gesucht"
SubjectDateOnly ==
  <<"2", " ", "U", "m", "z", "u", "g", "s", "h", "e", "l", "f", "e", "r", " ", "a", "m", " ", "2", "3", ".", "0", "8", " ", "i", "n", " ", "5", "8", "4", "5", "2", " ", "W", "i", "t", "t", "e", "n", " ", "g", "e", "s", "u", "c", "h", "t">>

\* "2 Umzugshelfer ab 31.08.2025 in 58452 Witten gesucht"
SubjectAbDate ==
  <<"2", " ", "U", "m", "z", "u", "g", "s", "h", "e", "l", "f", "e", "r", " ", "a", "b", " ", "3", "1", ".", "0", "8", ".", "2", "0", "2", "5", " ", "i", "n", " ", "5", "8", "4", "5", "2", " ", "W", "i", "t", "t", "e", "n", " ", "g", "e", "s", "u", "c", "h", "t">>

\* "2 Umzugshelfer am 23.08.2025 ab 15:00 Uhr gesucht"
SubjectNoZip ==
  <<"2", " ", "U", "m", "z", "u", "g", "s", "h", "e", "l", "f", "e", "r", " ", "a", "m", " ", "2", "3", ".", "0", "8", ".", "2", "0", "2", "5", " ", "a", "b", " ", "1", "5", ":", "0", "0", " ", "U", "h", "r", " ", "g", "e", "s", "u", "c", "h", "t">>

\* "2 Umzugshelfer am 23.08.2025 ab 15:00 Uhr in 58452"
SubjectZipOnly ==
  <<"2", " ", "U", "m", "z", "u", "g", "s", "h", "e", "l", "f", "e", "r", " ", "a", "m", " ", "2", "3", ".", "0", "8", ".", "2", "0", "2", "5", " ", "a", "b", " ", "1", "5", ":", "0", "0", " ", "U", "h", "r", " ", "i", "n", " ", "5", "8", "4", "5", "2">>

\* "Job morgen, 23.08. um 9 Uhr 58452 Witten"
SubjectMorgen ==
  <<"J", "o", "b", " ", "m", "o", "r", "g", "e", "n", ",", " ", "2", "3", ".", "0", "8", ".", " ", "u", "m", " ", "9", " ", "U", "h", "r", " ", "5", "8", "4", "5", "2", " ", "W", "i", "t", "t", "e", "n">>

\* "Umzug am 23.08. ab 9.30 in 58452 Witten gesucht"
SubjectNoYear ==
  <<"U", "m", "z", "u", "g", " ", "a", "m", " ", "2", "3", ".", "0", "8", ".", " ", "a", "b", " ", "9", ".", "3", "0", " ", "i", "n", " ", "5", "8", "4", "5", "2", " ", "W", "i", "t", "t", "e", "n", " ", "g", "e", "s", "u", "c", "h", "t">>

\* "2 Umzugshelfer am 23.08.2025 ab 25:00 Uhr in 58452 Witten gesucht"
SubjectLateHour ==
  <<"2", " ", "U", "m", "z", "u", "g", "s", "h", "e", "l", "f", "e", "r", " ", "a", "m", " ", "2", "3", ".", "0", "8", ".", "2", "0", "2", "5", " ", "a", "b", " ", "2", "5", ":", "0", "0", " ", "U", "h", "r", " ", "i", "n", " ", "5", "8", "4", "5", "2", " ", "W", "i", "t", "t", "e", "n", " ", "g", "e", "s", "u", "c", "h", "t">>

\* the subjects handed to the parser: what is parsed, the job it is the
\* canonical subject of (NoDetails for the others), and what it lacks
ParseInputs ==
  {[subject |-> Canonical(n, f), form |-> f, lacks |-> "none"] :
     n \in CanonCounts, f \in CanonForms}
  \cup {[subject |-> SubjectNoTime, form |-> NoDetails, lacks |-> "time"],
        [subject |-> SubjectDateOnly, form |-> NoDetails, lacks |-> "time"],
        [subject |-> SubjectAbDate, form |-> NoDetails, lacks |-> "time"],
        [subject |-> SubjectRegistrierung, form |-> NoDetails, lacks |-> "time"],
        [subject |-> SubjectNoZip, form |-> NoDetails, lacks |-> "loc"],
        [subject |-> SubjectZipOnly, form |-> NoDetails, lacks |-> "loc"],
        [subject |-> SubjectMorgen, form |-> NoDetails, lacks |-> "none"],
        [subject |-> SubjectNoYear, form |-> NoDetails, lacks |-> "none"],
        [subject |-> SubjectLateHour, form |-> NoDetails, lacks |-> "none"]}

ParserBuilds == {"details_new", "details_retry"}

\* the parser of the deployed watcher, called in the year y
Parser(b, subject, y) ==
  IF b = "details_retry" THEN parseJobDetailsFromText(subject)
  ELSE parseJobDetailsFromSubject(subject, y)

InitParse ==
  /\ build \in ParserBuilds
  /\ isProcessing = FALSE
  /\ processedJobs = <<>>
  /\ jobQueue = <<>>
  /\ stats = NoStats
  /\ running = {}
  /\ redispatch = <<>>
  /\ applied = <<>>
  /\ returnedTrue = {}
  /\ settled = NoOutcome
  /\ nTriggers = 0
  /\ mailbox = <<>>
  /\ checks = [id \in CheckIds |-> IdleCheck]
  /\ pushBusy = FALSE
  /\ wProcessed = <<>>
  /\ emailRetryCount = [uid \in 1..MaxMsgs |-> 0]
  /\ invoked = {}
  /\ faults = 0
  /\ lastOp = NoOp
  /\ page = <<>>
  /\ call = IdleCall
  /\ mailer = ConfiguredMailer
  /\ parse \in {[subject |-> in.subject, form |-> in.form, lacks |-> in.lacks,
                  calls |-> <<>>] : in \in ParseInputs}
  /\ auth = IdleAuth
  /\ imap = InitializedImap

\* this.parseJobDetailsFromSubject(subject) / parseJobDetailsFromText(subject)
ParseSubject(y) ==
  /\ Len(parse.calls) < MaxParses
  /\ parse' = [parse EXCEPT !.calls =
                 Append(@, [year |-> y, result |-> Parser(build, parse.subject, y)])]
  /\ UNCHANGED <<build, svcVars, watchVars, lastOp, autoVars, mailer, auth, imap>>

NextParse == \E y \in Years : ParseSubject(y)

SpecParse == InitParse /\ [][NextParse]_vars

\* the results of the calls made so far
ParseResults == {parse.calls[i].result : i \in 1..Len(parse.calls)}

\* C12: for every canonical subject "N Umzugshelfer am DD.MM.YYYY ab HH:MM
\* Uhr in ZZZZZ City gesucht" the parser returns exactly the date, time, zip
\* and city the subject was written from.
C12_CanonicalParsedExactly ==
  parse.form # NoDetails => \A r \in ParseResults : r = parse.form

\* C13: for every subject that has no time token, or no 5-digit zip followed
\* by a city word, parseJobDetailsFromSubject returns null; a date fragment
\* such as "23.08" is never read as the time.
C13_NoTokenReturnsNull ==
  (build = "details_new" /\ parse.lacks # "none")
    => \A r \in ParseResults : r = NoDetails

\* the number a digit stands for
DigitValue(c) == CHOOSE n \in 0..9 : DigitOf[n + 1] = c

\* DD.MM.YYYY, HH:MM and five digits, as written
ShapedRecord(d) ==
  /\ Len(d.date) = 10
  /\ \A i \in {1, 2, 4, 5, 7, 8, 9, 10} : d.date[i] \in Digits
  /\ d.date[3] = "." /\ d.date[6] = "."
  /\ Len(d.time) = 5
  /\ \A i \in {1, 2, 4, 5} : d.time[i] \in Digits
  /\ d.time[3] = ":"
  /\ Len(d.zip) = 5
  /\ \A i \in 1..5 : d.zip[i] \in Digits

\* a shaped record whose time is a time of day
WellFormed(d) ==
  /\ ShapedRecord(d)
  /\ 10 * DigitValue(d.time[1]) + DigitValue(d.time[2]) <= 23
  /\ 10 * DigitValue(d.time[4]) + DigitValue(d.time[5]) <= 59

\* C14: every non-null JobRecord the parser produces, and what normalizeDetails
\* makes of it, is well-formed: the date is DD.MM.YYYY with two-digit day and
\* month, the time is HH:MM with hour 00-23 and minute 00-59, the zip is five
\* digits.
C14_RecordWellFormed ==
  \A r \in ParseResults :
    r # NoDetails =>
      /\ WellFormed(r)
      /\ normalizeDetails(r) # NoDetails => WellFormed(normalizeDetails(r))

\* C15: the parser is deterministic: the calls made on one subject all return
\* the same result, whenever they are made.
C15_SameSubjectSameResult ==
  \A i, j \in 1..Len(parse.calls) : parse.calls[i].result = parse.calls[j].result

(***************************************************************************)
(* The watcher at work: mail arrives, the 'mail' event and the polling     *)
(* timer start checks, and every command sent and every call made comes    *)
(* back.  setInterval fires for as long as the process runs, so a check    *)
(* that can start does start.                                              *)
(***************************************************************************)
InitWatch == Init /\ Details

NextWatch ==
  \/ \E subject \in Subjects : MailArrives(subject)
  \/ \E id \in CheckIds : CheckStarts(id)
  \/ \E id \in CheckIds, fetchOk \in BOOLEAN, y \in Years : CheckMessage(id, fetchOk, y)
  \/ \E id \in CheckIds, ok \in BOOLEAN : MarkAsReadEnds(id, ok)
  \/ \E r \in running, outcome \in ApplyOutcomes : ApplyReturns(r, outcome)
  \/ \E r \in running : NotifyEnds(r)

\* a check awaits the fetch of a subject; a handler awaits the automator, or
\* its notification
Fetching == \E id \in CheckIds : checks[id].pc = "fetch"

Applying == \E r \in running : r.pc = "apply"

Notifying == \E r \in running : r.pc = "notify"

\* weak fairness of every step but the arrival of mail.  For the steps that
\* can call the handler, WF_vars(A) is written out as
\* []<>~ENABLED <<A>>_vars \/ []<><<A>>_vars, with the enabling condition of
\* A in the place of ENABLED.
FairWatch ==
  /\ WF_vars(\E id \in CheckIds : CheckStarts(id))
  /\ WF_vars(\E id \in CheckIds, ok \in BOOLEAN : MarkAsReadEnds(id, ok))
  /\ \/ []<>(~Fetching)
     \/ []<><<\E id \in CheckIds, fetchOk \in BOOLEAN, y \in Years :
                CheckMessage(id, fetchOk, y)>>_vars
  /\ \/ []<>(~Applying)
     \/ []<><<\E r \in running, outcome \in ApplyOutcomes : ApplyReturns(r, outcome)>>_vars
  /\ \/ []<>(~Notifying)
     \/ []<><<\E r \in running : NotifyEnds(r)>>_vars

SpecWatch == InitWatch /\ [][NextWatch]_vars /\ FairWatch

\* C16: a message whose subject never parses is not reprocessed forever: once
\* it is in the mailbox it is, after a bounded number of failed checks,
\* marked read, and from then on no search returns it.
C16_UnparsedMarkedRead ==
  \A uid \in 1..MaxMsgs :
    (uid <= Len(mailbox) /\ Rejects(uid)) ~> (uid <= Len(mailbox) /\ mailbox[uid].seen)

\* C17: checkForNewEmails is never executed re-entrantly: whatever the order
\* of 'mail' events and polling ticks, at most one check is in progress at a
\* time.
C17_ChecksNeverOverlap ==
  \A a, b \in CheckIds :
    a # b => ~(checks[a].pc # "idle" /\ checks[b].pc # "idle")

\* the listing the call submitted is gone from the page, or it is there with
\* a pending/accepted status or with a cancel control
OutcomeVerified ==
  /\ call.target # 0
  /\ \A i \in 1..Len(page) :
       page[i].id = call.target => StatusAccepted(page[i].status) \/ page[i].cancel

MatchesJob(entry, job) ==
  CASE build = "automator_new" -> HasText(entry.text, Needle(job))
    [] build = "automator_debug" -> LineMatches(entry, job)
    [] OTHER -> SpanMatches(entry, job)

SomeNewMatches == \E i \in 1..Len(page) : IsNew(page[i]) /\ MatchesJob(page[i], call.job)

SomeMatches == \E i \in 1..Len(page) : MatchesJob(page[i], call.job)

\* the listing the call has selected is a new one
SelectedIsNew(c) == \E i \in 1..Len(page) : page[i].id = c.target /\ IsNew(page[i])

\* C19: when the call has looked for its listing: if a listing with status
\* new/neu matches the job, the selected listing has status new/neu; if none
\* does but a listing in another state matches, that listing is selected and
\* the call does not return 'no match'.
C19_PrefersNewElseAny ==
  [][(call.pc = "locate" /\ call'.pc \in {"submit", "done"})
       => /\ SomeNewMatches => SelectedIsNew(call')
          /\ (~SomeNewMatches /\ SomeMatches) => call'.target # 0]_vars

(***************************************************************************)
(* The session: _ensureAuthenticated and the calls below it, as a stack of *)
(* frames.  The top frame runs; a frame that returns or throws hands ret    *)
(* ("ok", "fail" for false, "throw") to the frame under it.  What the site *)
(* shows at each look is the site's choice.                                *)
(***************************************************************************)
MaxLogins == 3

AuthBuilds == {"automator_new", "automator_fetch"}

Frame(fn, pc, attempt) == [fn |-> fn, pc |-> pc, attempt |-> attempt]

Top(a) == a.stack[Len(a.stack)]

\* the top frame goes on to pc, with nothing handed to it any more
SetTop(a, f) == [a EXCEPT !.stack[Len(a.stack)] = f, !.ret = "none"]

\* the top frame calls fn, and waits at pc for it
CallFrom(a, pc, fn, start) ==
  [a EXCEPT !.stack = Append(SubSeq(@, 1, Len(@) - 1), [Top(a) EXCEPT !.pc = pc])
                        \o <<Frame(fn, start, 1)>>,
            !.ret = "none"]

\* the top frame returns (r = "ok", "fail") or throws (r = "throw"); the call
\* of _ensureAuthenticated itself ends with a result
Leave(a, r) ==
  IF Len(a.stack) = 1
  THEN [a EXCEPT !.stack = <<>>, !.ret = "none",
                 !.result = IF r = "throw" THEN "threw" ELSE "returned"]
  ELSE [a EXCEPT !.stack = SubSeq(@, 1, Len(@) - 1), !.ret = r]

InitAuth ==
  /\ build \in AuthBuilds
  /\ isProcessing = FALSE
  /\ processedJobs = <<>>
  /\ jobQueue = <<>>
  /\ stats = NoStats
  /\ running = {}
  /\ redispatch = <<>>
  /\ applied = <<>>
  /\ returnedTrue = {}
  /\ settled = NoOutcome
  /\ nTriggers = 0
  /\ mailbox = <<>>
  /\ checks = [id \in CheckIds |-> IdleCheck]
  /\ pushBusy = FALSE
  /\ wProcessed = <<>>
  /\ emailRetryCount = [uid \in 1..MaxMsgs |-> 0]
  /\ invoked = {}
  /\ faults = 0
  /\ lastOp = NoOp
  /\ page = <<>>
  /\ call = IdleCall
  /\ mailer = ConfiguredMailer
  /\ parse = NoParse
  /\ auth = IdleAuth
  /\ imap = InitializedImap

AuthUnchanged == UNCHANGED <<build, svcVars, watchVars, lastOp, autoVars, mailer, parse, imap>>

\* goToMeineJobs, initialize, ...: await this._ensureAuthenticated()
EnsureStarts ==
  /\ auth = IdleAuth
  /\ auth' = [IdleAuth EXCEPT !.stack = <<Frame("ensure", "check", 1)>>]
  /\ AuthUnchanged

\* _ensureAuthenticated: if (atLogin) await this.login()
ensureAuthenticated(a, atLogin) ==
  IF Top(a).pc = "check"
  THEN IF atLogin THEN CallFrom(a, "login", "login", "submit") ELSE Leave(a, "ok")
  ELSE Leave(a, a.ret)

EnsureAuthenticated(atLogin) ==
  /\ auth.stack # <<>>
  /\ Top(auth).fn = "ensure"
  /\ auth' = ensureAuthenticated(auth, atLogin)
  /\ AuthUnchanged

\* login of automator-simple-new: one submission; off the login page, it
\* confirms that Meine Jobs opens
login(a, stillOnLogin) ==
  IF Top(a).pc = "submit"
  THEN Only({IF stillOnLogin THEN Leave(b, "throw")
             ELSE CallFrom(b, "opening", "open", "try") :
             b \in {[a EXCEPT !.submissions = @ + 1]}})
  ELSE Leave(a, IF a.ret = "ok" THEN "ok" ELSE "throw")

\* _login of the fetch automator: a submission and, still on /login, a
\* second one
loginWithRetry(a, stillOnLogin) ==
  Only({IF ~stillOnLogin THEN Leave(b, "ok")
        ELSE IF Top(a).pc = "submit" THEN SetTop(b, [Top(b) EXCEPT !.pc = "retry"])
        ELSE Leave(b, "throw") :
        b \in {[a EXCEPT !.submissions = @ + 1]}})

Login(stillOnLogin) ==
  /\ auth.stack # <<>>
  /\ Top(auth).fn = "login"
  /\ Top(auth).pc \in {"submit", "retry"} => auth.submissions < MaxLogins
  /\ auth' = IF build = "automator_fetch" THEN loginWithRetry(auth, stillOnLogin)
             ELSE login(auth, stillOnLogin)
  /\ AuthUnchanged

\* _openMeineJobsWithRetry: two attempts; after a failed one the page is
\* made anew and _ensureAuthenticated is awaited inside the catch block
openMeineJobsWithRetry(a) ==
  CASE Top(a).pc = "try" -> CallFrom(a, "tried", "emo", "start")
    [] Top(a).pc = "tried" ->
         IF a.ret = "ok" THEN Leave(a, "ok")
         ELSE CallFrom(a, "catch", "ensure", "check")
    [] Top(a).pc = "catch" ->
         IF a.ret = "throw" THEN Leave(a, "throw")
         ELSE IF Top(a).attempt = 2 THEN Leave(a, "fail")
         ELSE SetTop(a, [Top(a) EXCEPT !.pc = "try", !.attempt = 2])

OpenMeineJobsWithRetry ==
  /\ auth.stack # <<>>
  /\ Top(auth).fn = "open"
  /\ auth' = openMeineJobsWithRetry(auth)
  /\ AuthUnchanged

\* ensureMeineJobsOpen: done if the list is showing; else it goes there,
\* awaits _ensureAuthenticated and counts the entries
ensureMeineJobsOpen(a, entries) ==
  IF Top(a).pc = "start"
  THEN IF entries THEN Leave(a, "ok") ELSE CallFrom(a, "auth", "ensure", "check")
  ELSE IF a.ret = "throw" THEN Leave(a, "throw")
  ELSE Leave(a, IF entries THEN "ok" ELSE "fail")

EnsureMeineJobsOpen(entries) ==
  /\ auth.stack # <<>>
  /\ Top(auth).fn = "emo"
  /\ auth' = ensureMeineJobsOpen(auth, entries)
  /\ AuthUnchanged

\* the caller has the outcome of its await
AuthSettles ==
  /\ auth.stack = <<>>
  /\ auth.result # "none"
  /\ auth' = IdleAuth
  /\ AuthUnchanged

NextAuth ==
  \/ EnsureStarts
  \/ \E atLogin \in BOOLEAN : EnsureAuthenticated(atLogin)
  \/ \E stillOnLogin \in BOOLEAN : Login(stillOnLogin)
  \/ OpenMeineJobsWithRetry
  \/ \E entries \in BOOLEAN : EnsureMeineJobsOpen(entries)
  \/ AuthSettles

SpecAuth == InitAuth /\ [][NextAuth]_vars

\* C20: a call of _ensureAuthenticated submits the login form at most twice,
\* the first time and a single retry, before it returns or throws.
C20_BoundedLogins == auth.submissions <= 2

(***************************************************************************)
(* EmailWatcher: the IMAP connection, its events, reconnect and stop()     *)
(***************************************************************************)
\* Imap objects made in one run, the one of initialize() included
MaxConns == 6

\* scheduleReconnect: Math.min(this.reconnectDelayMs * 2, 60000)
MaxDelayMs == 60000

doubledDelay(d) == d * 2

nextDelay(d) == IF d * 2 < MaxDelayMs THEN d * 2 ELSE MaxDelayMs

\* imapConnection.end(): the socket of a connection that has one is closed
endConnection(conns, i) ==
  IF i \in 1..Len(conns) /\ conns[i].phase \in {"connecting", "open"}
  THEN [conns EXCEPT ![i].phase = "closing"]
  ELSE conns

scheduleReconnect(s) ==
  IF s.reconnectTimer
  THEN s
  ELSE [s EXCEPT !.connected = FALSE,
                 !.imapReady = FALSE,
                 !.conns = endConnection(@, s.cur),
                 !.reconnectTimer = TRUE,
                 !.timers = @ + 1,
                 !.scheduled = Append(@, s.reconnectDelayMs),
                 !.reconnectDelayMs = nextDelay(@)]

isConnected(s) == s.imapReady /\ s.connected

\* checkForNewEmails, its first statement: nothing is searched unless
\* imapReady, imapConnection and connected all hold
checkGuard(s, by) ==
  [s EXCEPT !.lastCheck = IF s.imapReady /\ s.cur # 0 /\ s.connected
                          THEN by ELSE "skipped"]

ConnUnchanged == UNCHANGED <<build, svcVars, watchVars, lastOp, autoVars, mailer, parse, auth>>

\* an Imap object emits 'error': the listener of setupImapHandlers runs, then
\* the one of connectImap, whose rejection lands in _reconnectImap's catch
ImapError(i) ==
  /\ i \in 1..Len(imap.conns)
  /\ imap.conns[i].phase \in {"connecting", "open"}
  /\ LET s0 == [imap EXCEPT !.conns[i].phase = "closing"]
         s1 == scheduleReconnect(s0)
     IN  imap' = IF imap.conns[i].await = "connect"
                 THEN scheduleReconnect([s1 EXCEPT !.conns[i].await = "none"])
                 ELSE s1
  /\ ConnUnchanged

\* an Imap object emits 'end': its socket has closed, whoever closed it; a
\* connectImap() still waiting on it has no listener for 'end' and never settles
ImapEnd(i) ==
  /\ i \in 1..Len(imap.conns)
  /\ imap.conns[i].phase # "closed"
  /\ imap' = scheduleReconnect(
               [imap EXCEPT !.conns[i].phase = "closed",
                            !.conns[i].await = IF @ = "connect" THEN "none" ELSE @])
  /\ ConnUnchanged

\* the timer of scheduleReconnect fires: _reconnectImap up to await connectImap()
ReconnectTimerFires ==
  /\ imap.timers > 0
  /\ Len(imap.conns) < MaxConns
  /\ imap' = [imap EXCEPT !.reconnectTimer = FALSE,
                          !.timers = @ - 1,
                          !.conns = Append(@, ImapObject("connecting", "connect", 0)),
                          !.cur = Len(imap.conns) + 1]
  /\ ConnUnchanged

\* 'ready': connectImap resolves and _reconnectImap calls openInbox(), which
\* selects the INBOX of this.imapConnection
ImapReady(i) ==
  /\ i \in 1..Len(imap.conns)
  /\ imap.conns[i].phase = "connecting"
  /\ imap.conns[i].await = "connect"
  /\ imap' = [imap EXCEPT !.conns[i].phase = "open",
                          !.conns[i].await = "openbox"]
  /\ ConnUnchanged

\* openBox calls back: attachPush and the flags, or the catch
OpenInboxReturns(i, ok) ==
  /\ i \in 1..Len(imap.conns)
  /\ imap.conns[i].await = "openbox"
  /\ ok => imap.conns[imap.cur].phase = "open"
  /\ imap' = IF ok
             THEN [imap EXCEPT !.conns[i].await = "none",
                               !.conns[imap.cur].mail = @ + 1,
                               !.imapReady = TRUE,
                               !.connected = TRUE,
                               !.reconnectDelayMs = InitialDelayMs,
                               !.scheduled = <<>>]
             ELSE scheduleReconnect([imap EXCEPT !.conns[i].await = "none"])
  /\ ConnUnchanged

\* stop()
Stop ==
  /\ ~imap.stopped
  /\ imap' = [imap EXCEPT !.pollingInterval = FALSE,
                          !.conns = endConnection(@, imap.cur),
                          !.connected = FALSE,
                          !.imapReady = FALSE,
                          !.stopped = TRUE]
  /\ ConnUnchanged

\* 'mail' on a connection that attachPush listens to
MailEvent(i) ==
  /\ i \in 1..Len(imap.conns)
  /\ imap.conns[i].phase = "open"
  /\ imap.conns[i].mail > 0
  /\ imap' = checkGuard(imap, "push")
  /\ ConnUnchanged

\* the interval of startPolling
PollTick ==
  /\ imap.pollingInterval
  /\ imap' = checkGuard(imap, "poll")
  /\ ConnUnchanged

NextConn ==
  \/ \E i \in 1..MaxConns : ImapError(i)
  \/ \E i \in 1..MaxConns : ImapEnd(i)
  \/ ReconnectTimerFires
  \/ \E i \in 1..MaxConns : ImapReady(i)
  \/ \E i \in 1..MaxConns, ok \in BOOLEAN : OpenInboxReturns(i, ok)
  \/ Stop
  \/ \E i \in 1..MaxConns : MailEvent(i)
  \/ PollTick

\* the deployment whose watcher is src/lib/email-watcher-smtp-new.js
InitConn == Init /\ build = "details_new"

SpecConn == InitConn /\ [][NextConn]_vars

\* the delay of the k-th timer scheduled since the connection last stood
Backoff(k) == IF k = 1 THEN 5000 ELSE IF k = 2 THEN 10000 ELSE IF k = 3 THEN 20000
              ELSE IF k = 4 THEN 40000 ELSE 60000

\* attachPush has run: some connection has one more 'mail' listener
Attached(s, t) == \E i \in 1..Len(s.conns) : t.conns[i].mail > s.conns[i].mail

\* C21: the timers scheduled since the connection last stood wait 5s, 10s,
\* 20s, 40s, 60s, 60s, ... in this order; the delay is never above 60s; at
\* most one timer is pending; a reconnect that succeeds leaves the delay at 5s.
C21_Backoff ==
  /\ [](/\ \A k \in 1..Len(imap.scheduled) : imap.scheduled[k] = Backoff(k)
        /\ imap.reconnectDelayMs <= 60000
        /\ imap.timers <= 1
        /\ imap.reconnectTimer <=> imap.timers = 1)
  /\ [][Attached(imap, imap') => imap'.reconnectDelayMs = 5000 /\ isConnected(imap')]_vars

\* six timers in a row with no reconnect succeeding between them, the last two of 60s
C21_Witness ==
  /\ Len(imap.scheduled) = 6
  /\ imap.scheduled[5] = 60000 /\ imap.scheduled[6] = 60000
  /\ imap.reconnectTimer

\* C28: once stop() has been called the watcher is never connected again: no
\* reconnect timer is pending, isConnected() is false, and no check of the
\* mailbox gets past the connection test of checkForNewEmails.
C28_StoppedStaysDown ==
  /\ [](imap.stopped => ~isConnected(imap) /\ ~imap.reconnectTimer)
  /\ [][imap.stopped => imap'.lastCheck \in {imap.lastCheck, "skipped"}]_vars

\* C29: an 'end' or 'error' of an Imap object that is no longer
\* this.imapConnection leaves the current connection open and the flags of a
\* connected watcher set, and no two open connections have 'mail' listeners.
C29_StaleEventsIsolated ==
  /\ [][\A i \in 1..Len(imap.conns) :
          (i # imap.cur /\ imap'.conns[i].phase # imap.conns[i].phase)
            => /\ imap'.conns[imap.cur].phase = imap.conns[imap.cur].phase
               /\ isConnected(imap) => isConnected(imap')]_vars
  /\ [](\A i, j \in 1..Len(imap.conns) :
          (imap.conns[i].phase = "open" /\ imap.conns[i].mail > 0
           /\ imap.conns[j].phase = "open" /\ imap.conns[j].mail > 0) => i = j)

(***************************************************************************)
(* checkForNewEmails over a batch: the watcher finds several unread        *)
(* messages in one search                                                  *)
(***************************************************************************)
\* unread messages in the mailbox when the watcher starts
BatchSize == 2

InitBatch ==
  /\ build \in {"details_new", "details_retry"}
  /\ isProcessing = FALSE
  /\ processedJobs = <<>>
  /\ jobQueue = <<>>
  /\ stats = NoStats
  /\ running = {}
  /\ redispatch = <<>>
  /\ applied = <<>>
  /\ returnedTrue = {}
  /\ settled = NoOutcome
  /\ nTriggers = 0
  /\ mailbox \in [1..BatchSize -> {[subject |-> s, seen |-> FALSE] : s \in Subjects}]
  /\ checks = [id \in CheckIds |-> IdleCheck]
  /\ pushBusy = FALSE
  /\ wProcessed = <<>>
  /\ emailRetryCount = [uid \in 1..BatchSize |-> 0]
  /\ invoked = {}
  /\ faults = 0
  /\ lastOp = NoOp
  /\ page = <<>>
  /\ call = IdleCall
  /\ mailer = ConfiguredMailer
  /\ parse = NoParse
  /\ auth = IdleAuth
  /\ imap = InitializedImap

NextBatch ==
  \/ \E id \in CheckIds : CheckStarts(id)
  \/ \E id \in CheckIds, fetchOk \in BOOLEAN, y \in Years : CheckMessage(id, fetchOk, y)
  \/ \E id \in CheckIds, ok \in BOOLEAN : MarkAsReadEnds(id, ok)
  \/ \E r \in running, outcome \in ApplyOutcomes : ApplyReturns(r, outcome)
  \/ \E r \in running : NotifyEnds(r)

SpecBatch == InitBatch /\ [][NextBatch]_vars

\* C22: a check leaves the message it works on only for the next message of
\* its batch, and returns only after the last one, whether the fetch, the
\* handler or markAsRead threw or not.
C22_BatchGoesOn ==
  [][\A id \in CheckIds :
       (checks[id].pc # "idle" /\ checks'[id] # checks[id]
        /\ checks'[id].uids # checks[id].uids)
         => /\ checks'[id].uids = Tail(checks[id].uids)
            /\ checks'[id].pc = IF Tail(checks[id].uids) = <<>> THEN "idle" ELSE "fetch"]_vars

\* an IMAP command failed for the first message, a job never handed to the
\* handler and still unread, and the same check is at the second message
C22_Witness ==
  /\ faults = 1
  /\ 1 \notin invoked
  /\ ~mailbox[1].seen
  /\ mailbox[1].subject = SubjectWitten
  /\ \E id \in CheckIds : checks[id].uids = <<2>> /\ checks[id].pc = "mark"
  /\ \A id \in CheckIds : checks[id].uids # <<1, 2>>

\* the keys the deployed watcher can make of a subject
WatcherKeys(subject) ==
  IF build = "details_retry"
  THEN {WatcherKey(d) : d \in {ParsedText[subject]} \ {NoDetails}}
  ELSE {WatcherKey(d) : d \in {ParsedSubject[subject][y] : y \in Years} \ {NoDetails}}

\* C23: when a check has fetched a message whose JobKey is already in the
\* watcher's processed-job set, it goes on to markAsRead(uid) and the job
\* handler is not called: no handler call is added and the service is untouched.
C23_KnownJobMarkedNotHandled ==
  [][\A id \in CheckIds :
       (/\ checks[id].pc = "fetch"
        /\ checks'[id] # checks[id]
        /\ faults' = faults
        /\ WatcherKeys(mailbox[Head(checks[id].uids)].subject) \cap Elems(wProcessed) # {})
         => /\ checks'[id].pc = "mark"
            /\ checks'[id].uids = checks[id].uids
            /\ invoked' = invoked
            /\ UNCHANGED svcVars]_vars

\* a check is marking a message read that it took for a known job
C23_Witness ==
  \E id \in CheckIds :
    /\ checks[id].pc = "mark"
    /\ checks[id].dup
    /\ checks[id].result = "none"
    /\ checks[id].jobKey \in Elems(wProcessed)

(***************************************************************************)
(* The service under load: jobs arrive while another is with the automator *)
(***************************************************************************)
\* calls of the handler from outside in one run
MaxArrivals == 3

\* the jobs that arrive, in this order: three jobs with three keys
ArrivingJobs ==
  <<JobWitten,
    [JobWitten EXCEPT !.time = <<"1", "6", ":", "0", "0">>],
    [JobWitten EXCEPT !.time = <<"1", "7", ":", "0", "0">>]>>

ArrivingIds == <<<<"101">>, <<"102">>, <<"103">>>>

\* the watcher or POST /trigger hands the next job to handleNewJob
JobArrives ==
  /\ Details
  /\ nTriggers < MaxArrivals
  /\ nTriggers' = nTriggers + 1
  /\ CallHandleNewJob(ArrivingJobs[nTriggers + 1], [kind |-> "trigger", id |-> "none"])
  /\ UNCHANGED <<build, sideVars, autoVars, watchVars, lastOp>>

\* the same for handleNewJobs of the job-id entry point
LegacyJobArrives ==
  /\ build = "legacy"
  /\ nTriggers < MaxArrivals
  /\ nTriggers' = nTriggers + 1
  /\ SetSvc(handleNewJobs(Svc, ArrivingIds[nTriggers + 1], [kind |-> "trigger", id |-> "none"]))
  /\ UNCHANGED <<build, sideVars, autoVars, settled, watchVars, lastOp>>

NextQueue ==
  \/ JobArrives
  \/ \E r \in running, outcome \in ApplyOutcomes : ApplyReturns(r, outcome)
  \/ \E r \in running : NotifyEnds(r)
  \/ TimerFires
  \/ LegacyJobArrives
  \/ LegacyTimerFires
  \/ \E r \in running, outcome \in ApplyOutcomes : LegacyProcessReturns(r, outcome)
  \/ \E r \in running : LegacyNotifyEnds(r)

SpecQueue == Init /\ [][NextQueue]_vars

\* the running job's key and the waiting job's payload, by place of arrival
ArrivalKeys ==
  IF build = "legacy" THEN ArrivingIds
  ELSE [k \in 1..MaxArrivals |-> JobKey(normalizeDetails(ArrivingJobs[k]))]

ArrivalPayloads ==
  IF build = "legacy" THEN ArrivingIds
  ELSE [k \in 1..MaxArrivals |-> normalizeDetails(ArrivingJobs[k])]

Place(order, x) == CHOOSE k \in 1..MaxArrivals : order[k] = x

\* the jobs that arrived while another was in flight and have not started
Waiting == Elems(redispatch) \cup {jobQueue[i].jobDetails : i \in 1..Len(jobQueue)}

\* C24: a job that had to wait is started only when no job that arrived
\* before it is still waiting.
C24_FifoStart ==
  \A r \in running :
    r.caller.kind = "timer" => \A w \in Waiting : Place(ArrivalKeys, r.jobKey) < Place(ArrivalPayloads, w)

\* C25: every key a handler call reports in results.successful is a key for
\* which a call of the automator has returned true.
C25_SuccessMeansApplied ==
  \A i \in 1..Len(settled.result.successful) :
    settled.result.successful[i] \in returnedTrue

\* the one attempt made for the job of message uid failed, the handler said
\* so to the check, and the check has left the message unread
LeftUnreadAfterFailure(uid) ==
  /\ uid <= Len(mailbox)
  /\ ~mailbox[uid].seen
  /\ uid \in invoked
  /\ \A id \in CheckIds : checks[id].pc = "idle"
  /\ settled.caller = "check"
  /\ settled.outcome \in {"false", "throw"}
  /\ Len(settled.result.failed) > 0
  /\ Len(applied) = 1
  /\ emailRetryCount[uid] < HandlerRetryBudget

\* C26: a message left unread because the handler reported failure leads to
\* a second call of applyToJobByDetails for its job.
C26_FailureLeadsToRetry ==
  \A uid \in 1..MaxMsgs : LeftUnreadAfterFailure(uid) ~> (Len(applied) >= 2)

(***************************************************************************)
(* The queue of handleNewJob with time going on: what awaits the automator *)
(* or a notification gets its answer, and a timer that is set fires; that   *)
(* more jobs arrive is not required.                                       *)
(***************************************************************************)
NextDrain ==
  \/ JobArrives
  \/ \E r \in running, outcome \in ApplyOutcomes : ApplyReturns(r, outcome)
  \/ \E r \in running : NotifyEnds(r)
  \/ TimerFires

FairDrain ==
  /\ WF_vars(\E r \in running : NotifyEnds(r))
  /\ \/ []<>(~Applying)
     \/ []<><<\E r \in running, outcome \in ApplyOutcomes : ApplyReturns(r, outcome)>>_vars
  /\ \/ []<>(redispatch = <<>>)
     \/ []<><<TimerFires>>_vars

SpecDrain == InitWatch /\ [][NextDrain]_vars /\ FairDrain

\* C27: jobs waiting in jobQueue do not wait for ever: the queue becomes empty.
C27_QueueDrains == (jobQueue # <<>>) ~> (jobQueue = <<>>)

\* GET /stats: Math.round((successCount / totalJobsProcessed) * 100), or 0
successRate(st) ==
  IF st.totalJobsProcessed > 0
  THEN (200 * st.successCount + st.totalJobsProcessed) \div (2 * st.totalJobsProcessed)
  ELSE 0

\* C30: whenever no job is in flight, successCount + failCount equals
\* totalJobsProcessed, and the success rate of GET /stats is at most 100.
C30_StatsAddUp ==
  running = {} =>
    /\ stats.successCount + stats.failCount = stats.totalJobsProcessed
    /\ successRate(stats) <= 100

====
